---- MODULE Spec2Model ----
(***************************************************************************)
(* A model of the webgl-wrapper crate: the binding cache (GlContextCache), *)
(* the device state the cache is meant to mirror, the resource wrappers    *)
(* (Texture2d, Renderbuffer, Framebuffer, GlProgram, Mesh), the surfaces   *)
(* and the two draw paths.                                                 *)
(*                                                                         *)
(* Conventions.  Option<T>: None is <<>> and Some(x) is <<x>>.  A native   *)
(* handle is a positive integer and 0 is the null handle (the default      *)
(* framebuffer, "no program", ...).  Every operation of the library is one *)
(* action; the operations it calls are operators on a "world" record       *)
(* [cache, gl, calls] that they transform in program order, where calls is *)
(* the list of device calls the operation has issued so far.               *)
(***************************************************************************)
EXTENDS Integers, Sequences, FiniteSets, Bags, TLC

\* ---------------------------------------------------------------- bounds
MaxFramebuffers == 2
MaxTextures == 2
MaxPrograms == 1
MaxMeshes == 1

\* The programs and meshes of the behaviours that only create and draw
MaxDrawPrograms == MaxPrograms + 1
MaxDrawMeshes == MaxMeshes + 1
MaxAttributes == 3

\* ------------------------------------------------------- program constants
NumTextureUnits == 32
COLOR_BUFFER_BIT == 16384
DEPTH_BUFFER_BIT == 256

None == <<>>
Some(x) == <<x>>

\* The sizes, texture units and clear lists the operations are called with
Sizes == {<<1, 1>>, <<2, 1>>}
Units == {0, 1}

\* The units Texture2d::bind is called with: also the first one past the cache
BindUnits == Units \cup {NumTextureUnits}
TextureUnits == 0..(NumTextureUnits - 1)

\* The native handles the device hands out, per kind of object.
FramebufferHandles == 1..MaxFramebuffers
TextureHandles == 1..MaxTextures
RenderbufferHandles == 1..MaxFramebuffers

\* ClearBuffer: Color([f32; 4]) or Depth
Black == <<"Color", <<0, 0, 0, 0>>>>
White == <<"Color", <<1, 1, 1, 1>>>>
Depth == <<"Depth">>
ClearBufferLists ==
    {<<>>, <<Black>>, <<Depth>>, <<Black, Depth>>, <<Depth, White>>, <<Black, White>>}

MinFilters == {"Nearest", "LinearMipmapLinear"}
FramebufferStatuses ==
    {"FRAMEBUFFER_COMPLETE", "FRAMEBUFFER_INCOMPLETE_ATTACHMENT",
     "FRAMEBUFFER_INCOMPLETE_MISSING_ATTACHMENT", "FRAMEBUFFER_UNSUPPORTED",
     "FRAMEBUFFER_INCOMPLETE_MULTISAMPLE"}

\* GlContext::new creates vertex array 1 (instanced_vao) and buffer 1
\* (instanced_vbo); every Mesh adds one vertex array and two buffers.
ProgramHandles == 1..MaxDrawPrograms
VertexArrayHandles == 1..(MaxDrawMeshes + 1)
BufferHandles == 1..(2 * MaxDrawMeshes + 1)

\* Rect::new(Point2::origin(), Point2::from_vec(size))
RectOfSize(size) == [start |-> <<0, 0>>, end |-> size]

\* A device call: its name, its target enum ("" when it has none), its other
\* enum arguments, its numeric arguments and, for a call that writes an
\* object the device selects through a binding (clear, draw, upload), the
\* handle of the object it wrote.
CallOn(name, target, param, args, on) ==
    [name |-> name, target |-> target, param |-> param, args |-> args, on |-> on]
CallP(name, target, param, args) == CallOn(name, target, param, args, None)
Call(name, target, args) == CallOn(name, target, <<>>, args, None)

VARIABLES
    cache,          \* GlContextCache
    gl,             \* the state of the WebGL2 device
    screen,         \* the ScreenSurface
    framebuffers,   \* the Framebuffer values constructed so far
    textures,       \* the Texture2d values constructed so far
    renderbuffers,  \* the Renderbuffer values constructed so far
    programs,       \* the GlProgram values constructed so far
    meshes,         \* the Mesh values constructed so far
    built,          \* per mesh, the builder of its most recent build_from
    next_id,        \* the uid counters behind FramebufferId / TextureId / ProgramId
    calls,          \* the device calls issued by the last operation, in order
    last,           \* the last operation and its arguments
    bind_last,      \* the surface of the last Surface::bind call
    bind_differs,   \* that surface differed from the one of the call before it
    panicked,       \* the process has panicked
    mesh_builder,   \* the MeshBuilder<V, P> under construction, once created
    builder_type,   \* its vertex type V and its primitive type P
    verts_since_clear,  \* the vert calls that returned since new/clear (None after an extend)
    program_strong,     \* per program, the strong count of its Rc<GlProgramInner>
    program_handles,    \* per program, the GlProgram values the caller holds
    dropped,            \* the Texture2d, Framebuffer and Mesh values the caller dropped
    deleted             \* the bag of the delete_* calls issued so far

vars == <<cache, gl, screen, framebuffers, textures, renderbuffers, programs, meshes,
          built, next_id,
          calls, last, bind_last, bind_differs, panicked,
          mesh_builder, builder_type, verts_since_clear,
          program_strong, program_handles, dropped, deleted>>

\* The variables of the MeshBuilder, and those of the context and its objects
builder_vars == <<mesh_builder, builder_type, verts_since_clear>>
context_vars == <<cache, gl, screen, framebuffers, textures, renderbuffers, programs,
                  meshes, built, next_id, bind_last, bind_differs>>

\* The variables of ownership: who holds what, and what was released
lifetime_vars == <<program_strong, program_handles, dropped, deleted>>

\* ------------------------------------------------------------ GlContextCache
\* GlContextCache::new
GlContextCacheNew ==
    [draw_mode |-> None,
     bound_program |-> None,
     bound_framebuffer |-> None,
     bound_read_framebuffer |-> None,
     bound_textures |-> [u \in TextureUnits |-> None]]

\* ------------------------------------------------------------------ device
\* The device right after GlContext::new: default framebuffer bound for
\* drawing and reading, unit 0 active, no texture bound, the viewport of
\* the canvas.
GlInit(canvas_size) ==
    [draw_framebuffer |-> 0,
     read_framebuffer |-> 0,
     viewport |-> <<0, 0, canvas_size[1], canvas_size[2]>>,
     active_texture |-> 0,
     texture_binding |-> [u \in TextureUnits |-> 0],
     renderbuffer_binding |-> 0,
     framebuffer_attachment |-> [f \in FramebufferHandles |-> <<"NONE", 0>>],
     texture_data |-> [t \in TextureHandles |-> None],
     current_program |-> 0,
     vertex_array |-> 1,
     array_buffer |-> 1,
     element_array_buffer |-> [v \in VertexArrayHandles |-> 0],
     vertex_attribs |-> [v \in VertexArrayHandles |-> {}],
     buffer_data |-> [b \in BufferHandles |-> None],
     cull_face |-> FALSE,
     depth_test |-> FALSE]

\* The world after one more device call, and after a panic
Issue(w, c) == [w EXCEPT !.calls = Append(@, c)]
Panic(w) == [w EXCEPT !.panic = TRUE]

\* WebGl2RenderingContext::bind_framebuffer: FRAMEBUFFER sets both the draw
\* and the read binding.
gl_bind_framebuffer(w, target, fb) ==
    LET g == w.gl
        g2 == CASE target = "FRAMEBUFFER" ->
                     [g EXCEPT !.draw_framebuffer = fb, !.read_framebuffer = fb]
                [] target = "DRAW_FRAMEBUFFER" -> [g EXCEPT !.draw_framebuffer = fb]
                [] target = "READ_FRAMEBUFFER" -> [g EXCEPT !.read_framebuffer = fb]
    IN  Issue([w EXCEPT !.gl = g2], Call("bind_framebuffer", target, <<fb>>))

\* GlContext::viewport
GlContextViewport(w, viewport) ==
    LET x == viewport.start[1]
        y == viewport.start[2]
        width == viewport.end[1] - viewport.start[1]
        height == viewport.end[2] - viewport.start[2]
    IN  Issue([w EXCEPT !.gl.viewport = <<x, y, width, height>>],
              Call("viewport", "", <<x, y, width, height>>))

\* WebGl2RenderingContext::active_texture(TEXTURE0 + unit)
gl_active_texture(w, unit) ==
    Issue([w EXCEPT !.gl.active_texture = unit], Call("active_texture", "", <<unit>>))

\* WebGl2RenderingContext::bind_texture(TEXTURE_2D, texture): binds on the
\* active unit.
gl_bind_texture(w, texture) ==
    Issue([w EXCEPT !.gl.texture_binding[w.gl.active_texture] = texture],
          Call("bind_texture", "TEXTURE_2D", <<texture>>))

\* tex_image_2d / tex_sub_image_2d on TEXTURE_2D: writes the texture bound
\* on the active unit (no texture bound there: a device error, nothing
\* written).  data names the upload: its kind and the Texture2d it is for.
gl_tex_image(w, name, size, data) ==
    LET t == w.gl.texture_binding[w.gl.active_texture]
        w2 == IF t = 0 THEN w ELSE [w EXCEPT !.gl.texture_data[t] = Some(data)]
    IN  Issue(w2, CallOn(name, "TEXTURE_2D", <<>>, size, Some(t)))

\* WebGl2RenderingContext::tex_parameteri(TEXTURE_2D, pname, value)
gl_tex_parameteri(w, pname, value) ==
    Issue(w, CallP("tex_parameteri", "TEXTURE_2D", <<pname, value>>, <<>>))

\* framebuffer_texture_2d / framebuffer_renderbuffer on FRAMEBUFFER,
\* COLOR_ATTACHMENT0: attaches to the framebuffer bound for drawing.
gl_framebuffer_attach(w, name, kind, handle) ==
    LET f == w.gl.draw_framebuffer
        w2 == IF f = 0 THEN w
              ELSE [w EXCEPT !.gl.framebuffer_attachment[f] = <<kind, handle>>]
    IN  Issue(w2, CallP(name, "FRAMEBUFFER", <<"COLOR_ATTACHMENT0", kind>>, <<handle>>))

\* WebGl2RenderingContext::clear(bits): clears the framebuffer bound for drawing
gl_clear(w, bits) ==
    Issue(w, CallOn("clear", "", <<>>, <<bits>>, Some(w.gl.draw_framebuffer)))

\* WebGl2RenderingContext::use_program
gl_use_program(w, program) ==
    Issue([w EXCEPT !.gl.current_program = program], Call("use_program", "", <<program>>))

\* WebGl2RenderingContext::bind_vertex_array
gl_bind_vertex_array(w, vao) ==
    Issue([w EXCEPT !.gl.vertex_array = vao], Call("bind_vertex_array", "", <<vao>>))

\* WebGl2RenderingContext::bind_buffer: ARRAY_BUFFER is a binding of the
\* context, ELEMENT_ARRAY_BUFFER one of the bound vertex array.
gl_bind_buffer(w, target, buffer) ==
    Issue(IF target = "ARRAY_BUFFER"
          THEN [w EXCEPT !.gl.array_buffer = buffer]
          ELSE [w EXCEPT !.gl.element_array_buffer[w.gl.vertex_array] = buffer],
          Call("bind_buffer", target, <<buffer>>))

\* The buffer a target names
BoundBuffer(g, target) ==
    IF target = "ARRAY_BUFFER" THEN g.array_buffer
    ELSE g.element_array_buffer[g.vertex_array]

\* WebGl2RenderingContext::buffer_data_with_array_buffer_view: replaces
\* the contents of the buffer bound to target (none bound: a device error).
gl_buffer_data(w, target, data, usage) ==
    LET b == BoundBuffer(w.gl, target)
        w2 == IF b = 0 THEN w ELSE [w EXCEPT !.gl.buffer_data[b] = Some(data)]
    IN  Issue(w2, CallOn("buffer_data", target, <<usage>>, <<Len(data)>>, Some(b)))

\* enable_vertex_attrib_array(loc), vertex_attrib_pointer(loc, size, FLOAT,
\* false, stride, offset) and, with instanced, vertex_attrib_divisor(loc, 1):
\* the slot of the bound vertex array reads the buffer bound to ARRAY_BUFFER
\* (a size outside 1..4 is a device error that leaves the slot as it was).
gl_vertex_attrib(w, loc, size, stride, offset, instanced) ==
    LET slot == [loc |-> loc, size |-> size, stride |-> stride, offset |-> offset,
                 buffer |-> w.gl.array_buffer, divisor |-> IF instanced THEN 1 ELSE 0]
        old == w.gl.vertex_attribs[w.gl.vertex_array]
        new == IF size \in 1..4 THEN {a \in old : a.loc # loc} \cup {slot} ELSE old
        w1 == Issue([w EXCEPT !.gl.vertex_attribs[w.gl.vertex_array] = new],
                    Call("enable_vertex_attrib_array", "", <<loc>>))
        w2 == Issue(w1, CallP("vertex_attrib_pointer", "", <<"FLOAT">>,
                              <<loc, size, stride, offset>>))
    IN  IF instanced THEN Issue(w2, Call("vertex_attrib_divisor", "", <<loc, 1>>)) ELSE w2

\* enable(flag) / disable(flag) for CULL_FACE and DEPTH_TEST
gl_set_flag(w, flag, on) ==
    Issue(IF flag = "CULL_FACE" THEN [w EXCEPT !.gl.cull_face = on]
          ELSE [w EXCEPT !.gl.depth_test = on],
          CallP(IF on THEN "enable" ELSE "disable", "", <<flag>>, <<>>))

\* draw_elements / draw_elements_instanced: draws into the framebuffer bound
\* for drawing, with the bound vertex array and the current program
gl_draw_elements(w, name, mode, count, type, instance_count) ==
    Issue(w, CallOn(name, "", <<mode, type>>, <<count, 0>> \o instance_count,
                    Some(w.gl.draw_framebuffer)))

\* ---------------------------------------------------------------- textures
\* MinFilter::as_gl
MinFilterAsGl(f) ==
    CASE f = "Nearest" -> "NEAREST"
      [] f = "Linear" -> "LINEAR"
      [] f = "NearestMipmapNearest" -> "NEAREST_MIPMAP_NEAREST"
      [] f = "NearestMipmapLinear" -> "NEAREST_MIPMAP_LINEAR"
      [] f = "LinearMipmapNearest" -> "LINEAR_MIPMAP_NEAREST"
      [] f = "LinearMipmapLinear" -> "LINEAR_MIPMAP_LINEAR"

\* MinFilter::has_mipmap
HasMipmap(f) == f \notin {"Nearest", "Linear"}

\* Texture2d::set_tex_parameters (mag filter Linear, wrap mode ClampToEdge)
SetTexParameters(w, min_filter) ==
    LET w1 == gl_tex_parameteri(w, "TEXTURE_MIN_FILTER", MinFilterAsGl(min_filter))
        w2 == gl_tex_parameteri(w1, "TEXTURE_MAG_FILTER", "LINEAR")
        w3 == gl_tex_parameteri(w2, "TEXTURE_WRAP_S", "CLAMP_TO_EDGE")
        w4 == gl_tex_parameteri(w3, "TEXTURE_WRAP_T", "CLAMP_TO_EDGE")
    IN  IF HasMipmap(min_filter)
        THEN Issue(w4, Call("generate_mipmap", "TEXTURE_2D", <<>>))
        ELSE w4

\* The body shared by Texture2d::empty, from_image and from_data:
\* create_texture, bind_texture, tex_image_2d, set_tex_parameters.
\* kind is "empty", "image" or "data".
TextureCreate(w, texture, size, kind, min_filter) ==
    SetTexParameters(
        gl_tex_image(
            gl_bind_texture(Issue(w, Call("create_texture", "", <<>>)), texture),
            "tex_image_2d", size, <<kind, texture>>),
        min_filter)

\* A Texture2d value identified by its native handle
Texture2dValueAltHandleIsId(texture, size, id) ==
    [texture |-> texture, size |-> size, id |-> texture, owner |-> 0]

\* The Texture2d value the three constructors return
Texture2dValue(texture, size, id) ==
    [texture |-> texture, size |-> size, id |-> id, owner |-> 0]

\* Texture2d::bind that tests the cache entry of unit 0 for every unit
Texture2dBindAltTestsUnitZero(w, t, texture_unit) ==
    IF texture_unit \notin TextureUnits THEN Panic(w)
    ELSE IF w.cache.bound_textures[0] # Some(<<"TEXTURE_2D", textures[t].id>>)
    THEN gl_bind_texture(
             gl_active_texture(
                 [w EXCEPT !.cache.bound_textures[texture_unit] =
                               Some(<<"TEXTURE_2D", textures[t].id>>)],
                 texture_unit),
             textures[t].texture)
    ELSE w

\* Texture2d::bind(texture_unit): indexing bound_textures, an array of 32
\* entries, panics on a unit of 32 or more
Texture2dBind(w, t, texture_unit) ==
    IF texture_unit \notin TextureUnits THEN Panic(w)
    ELSE IF w.cache.bound_textures[texture_unit] # Some(<<"TEXTURE_2D", textures[t].id>>)
    THEN gl_bind_texture(
             gl_active_texture(
                 [w EXCEPT !.cache.bound_textures[texture_unit] =
                               Some(<<"TEXTURE_2D", textures[t].id>>)],
                 texture_unit),
             textures[t].texture)
    ELSE w

\* Texture2d::set_contents
Texture2dSetContents(w, t) ==
    gl_tex_image(Texture2dBind(w, t, 0), "tex_sub_image_2d", textures[t].size,
                 <<"contents", textures[t].texture>>)

\* ---------------------------------------------------------------- surfaces
\* A surface is named by 0 (the screen) or by the index of a framebuffer.
Surfaces == 0..Len(framebuffers)

SurfaceId(s) == IF s = 0 THEN screen.id ELSE framebuffers[s].id
SurfaceHandle(s) == IF s = 0 THEN 0 ELSE framebuffers[s].framebuffer
SurfaceViewport(s) == IF s = 0 THEN screen.viewport ELSE framebuffers[s].viewport
SurfaceSize(s) == IF s = 0 THEN screen.size ELSE framebuffers[s].attachment_size

\* ScreenSurface::new on a canvas of the given size
ScreenSurfaceNew(canvas_size, id) ==
    [viewport |-> RectOfSize(canvas_size), size |-> canvas_size,
     canvas |-> canvas_size, id |-> id]

\* Surface::bind without the cache test: binds on every call
SurfaceBindAltAlwaysBinds(w, s) ==
    GlContextViewport(
        gl_bind_framebuffer(
            [w EXCEPT !.cache.bound_framebuffer = Some(SurfaceId(s))],
            "DRAW_FRAMEBUFFER", SurfaceHandle(s)),
        SurfaceViewport(s))

\* Surface::bind of ScreenSurface and of Framebuffer<A>
SurfaceBind(w, s) ==
    IF w.cache.bound_framebuffer # Some(SurfaceId(s))
    THEN GlContextViewport(
             gl_bind_framebuffer(
                 [w EXCEPT !.cache.bound_framebuffer = Some(SurfaceId(s))],
                 "DRAW_FRAMEBUFFER", SurfaceHandle(s)),
             SurfaceViewport(s))
    ELSE w

\* Surface::bind_read written like bind: both targets bound, viewport set
SurfaceBindReadAltLikeBind(w, s) ==
    IF w.cache.bound_read_framebuffer # Some(SurfaceId(s))
    THEN GlContextViewport(
             gl_bind_framebuffer(
                 [w EXCEPT !.cache.bound_read_framebuffer = Some(SurfaceId(s))],
                 "FRAMEBUFFER", SurfaceHandle(s)),
             SurfaceViewport(s))
    ELSE w

\* Surface::bind_read of ScreenSurface and of Framebuffer<A>
SurfaceBindRead(w, s) ==
    IF w.cache.bound_read_framebuffer # Some(SurfaceId(s))
    THEN gl_bind_framebuffer(
             [w EXCEPT !.cache.bound_read_framebuffer = Some(SurfaceId(s))],
             "READ_FRAMEBUFFER", SurfaceHandle(s))
    ELSE w

\* u32 | u32
RECURSIVE BitOr(_, _)
BitOr(a, b) ==
    IF a = 0 THEN b
    ELSE IF b = 0 THEN a
    ELSE (IF a % 2 = 1 \/ b % 2 = 1 THEN 1 ELSE 0) + 2 * BitOr(a \div 2, b \div 2)

\* ClearBuffer::as_gl
ClearBufferAsGl(b) == IF b[1] = "Color" THEN COLOR_BUFFER_BIT ELSE DEPTH_BUFFER_BIT

\* ClearBuffer::color
ClearBufferColor(b) == IF b[1] = "Color" THEN Some(b[2]) ELSE None

\* The loop of Surface::clear from buffer i on, then the clear call
RECURSIVE ClearLoop(_, _, _, _)
ClearLoop(w, bits, buffers, i) ==
    IF i > Len(buffers)
    THEN gl_clear(w, bits)
    ELSE LET color == ClearBufferColor(buffers[i])
             w2 == IF color # None
                   THEN Issue(w, Call("clear_color", "", color[1]))
                   ELSE w
         IN  ClearLoop(w2, BitOr(bits, ClearBufferAsGl(buffers[i])), buffers, i + 1)

\* Surface::clear with the assertion made after the bind
SurfaceClearAltBindsBeforeAssert(w, s, buffers) ==
    IF buffers = <<>> THEN Panic(SurfaceBind(w, s))
    ELSE ClearLoop(SurfaceBind(w, s), 0, buffers, 1)

\* Surface::clear
SurfaceClear(w, s, buffers) ==
    IF buffers = <<>> THEN Panic(w)
    ELSE ClearLoop(SurfaceBind(w, s), 0, buffers, 1)

\* ScreenSurface::set_size: the fields it assigns
ScreenResized(scr, new_size) ==
    [scr EXCEPT !.canvas = new_size,
                !.viewport = RectOfSize(new_size),
                !.size = new_size]

\* set_size that leaves the viewport to the next bind
ScreenSetSizeViewportAltDeferred(w, scr) == w

\* ScreenSurface::set_size: the viewport update that follows the assignments
ScreenSetSizeViewport(w, scr) ==
    IF w.cache.bound_framebuffer = Some(scr.id)
    THEN GlContextViewport(w, scr.viewport)
    ELSE w

\* Renderbuffer::new
RenderbufferNewCalls(w, renderbuffer, size) ==
    LET w1 == Issue(w, Call("create_renderbuffer", "", <<>>))
        w2 == Issue([w1 EXCEPT !.gl.renderbuffer_binding = renderbuffer],
                    Call("bind_renderbuffer", "RENDERBUFFER", <<renderbuffer>>))
        w3 == Issue(w2, CallP("get_parameter", "", <<"MAX_SAMPLES">>, <<>>))
    IN  Issue(w3, Call("renderbuffer_storage_multisample", "RENDERBUFFER", size))

\* Framebuffer::new up to the completeness query: create_framebuffer,
\* bind_framebuffer(FRAMEBUFFER), attach_to_framebuffer, check_framebuffer_status
FramebufferNewCalls(w, framebuffer, kind, handle) ==
    LET w1 == Issue(w, Call("create_framebuffer", "", <<>>))
        w2 == gl_bind_framebuffer(w1, "FRAMEBUFFER", framebuffer)
        w3 == IF kind = "TEXTURE_2D"
              THEN gl_framebuffer_attach(w2, "framebuffer_texture_2d", kind, handle)
              ELSE gl_framebuffer_attach(w2, "framebuffer_renderbuffer", kind, handle)
    IN  Issue(w3, Call("check_framebuffer_status", "FRAMEBUFFER", <<>>))

\* The reason match with FRAMEBUFFER_UNSUPPORTED falling to the default arm
FramebufferStatusReasonAltNoUnsupportedArm(status) ==
    CASE status = "FRAMEBUFFER_INCOMPLETE_ATTACHMENT" -> "incomplete attachment"
      [] status = "FRAMEBUFFER_INCOMPLETE_MISSING_ATTACHMENT" ->
             "incomplete missing attachment"
      [] OTHER -> "unknown reason"

\* Framebuffer::new, the match on a status that is not FRAMEBUFFER_COMPLETE
FramebufferStatusReason(status) ==
    CASE status = "FRAMEBUFFER_INCOMPLETE_ATTACHMENT" -> "incomplete attachment"
      [] status = "FRAMEBUFFER_INCOMPLETE_MISSING_ATTACHMENT" ->
             "incomplete missing attachment"
      [] status = "FRAMEBUFFER_UNSUPPORTED" -> "unsupported"
      [] OTHER -> "unknown reason"

\* Framebuffer::new on an incomplete framebuffer: error!(..), then panic!()
FramebufferNotComplete(w, status) ==
    Panic(Issue(w, CallP("error!", "",
                         <<"Framebuffer not complete: {}", FramebufferStatusReason(status)>>,
                         <<>>)))

\* The Framebuffer value Framebuffer::new returns
FramebufferValue(framebuffer, kind, index, size, id) ==
    [framebuffer |-> framebuffer,
     attachment |-> <<kind, index>>,
     attachment_size |-> size,
     viewport |-> RectOfSize(size),
     id |-> id]

\* Framebuffer::blit_to
FramebufferBlitTo(w, f, s) ==
    LET w1 == SurfaceBind(SurfaceBindRead(w, f), s)
        size == framebuffers[f].attachment_size
    IN  Issue(w1, CallOn("blit_framebuffer", "", <<"COLOR_BUFFER_BIT", "NEAREST">>,
                         <<0, 0, size[1], size[2], 0, 0, size[1], size[2]>>,
                         Some(w1.gl.draw_framebuffer)))

\* ------------------------------------------------------------ vertex layout
\* Vertex::stride / VertexData::stride: the sum of the declared sizes
RECURSIVE SumSizes(_, _)
SumSizes(attributes, n) ==
    IF n = 0 THEN 0 ELSE SumSizes(attributes, n - 1) + attributes[n]

VertexStrideAltSkipsMatrix(attributes) ==
    SumSizes([i \in 1..Len(attributes) |->
                  IF attributes[i] = 16 THEN 4 ELSE attributes[i]], Len(attributes))

VertexStride(attributes) == SumSizes(attributes, Len(attributes))

\* setup_vertex_attrib that never marks the slot as per-instance
SetupVertexAttribAltNeverInstanced(w, loc, size, stride, offset, instanced) ==
    gl_vertex_attrib(w, loc, size, stride * 4, offset * 4, FALSE)

\* setup_vertex_attrib
SetupVertexAttrib(w, loc, size, stride, offset, instanced) ==
    gl_vertex_attrib(w, loc, size, stride * 4, offset * 4, instanced)

\* The loop of setup_vertex_attribs from descriptor i on, at float offset
\* offset; locations[i] is what get_attrib_location answers for descriptor i.
RECURSIVE SetupVertexAttribsLoop(_, _, _, _, _, _, _)
\* The loop with a matrix advancing the offset by one row only
SetupVertexAttribsLoopAltMatrixAdvancesRow(w, attributes, locations, stride, instanced, i, offset) ==
    IF i > Len(attributes) THEN w
    ELSE LET size == attributes[i]
             loc == locations[i]
         IN  IF size = 16
             THEN SetupVertexAttribsLoop(
                      SetupVertexAttrib(
                          SetupVertexAttrib(
                              SetupVertexAttrib(
                                  SetupVertexAttrib(w, loc, 4, stride, offset, instanced),
                                  loc + 1, 4, stride, offset + 4, instanced),
                              loc + 2, 4, stride, offset + 8, instanced),
                          loc + 3, 4, stride, offset + 12, instanced),
                      attributes, locations, stride, instanced, i + 1, offset + 4)
             ELSE IF size <= 4
             THEN SetupVertexAttribsLoop(
                      SetupVertexAttrib(w, loc, size, stride, offset, instanced),
                      attributes, locations, stride, instanced, i + 1, offset + size)
             ELSE Panic(w)

SetupVertexAttribsLoop(w, attributes, locations, stride, instanced, i, offset) ==
    IF i > Len(attributes) THEN w
    ELSE LET size == attributes[i]
             loc == locations[i]
         IN  IF size = 16
             THEN SetupVertexAttribsLoop(
                      SetupVertexAttrib(
                          SetupVertexAttrib(
                              SetupVertexAttrib(
                                  SetupVertexAttrib(w, loc, 4, stride, offset, instanced),
                                  loc + 1, 4, stride, offset + 4, instanced),
                              loc + 2, 4, stride, offset + 8, instanced),
                          loc + 3, 4, stride, offset + 12, instanced),
                      attributes, locations, stride, instanced, i + 1, offset + size)
             ELSE IF size <= 4
             THEN SetupVertexAttribsLoop(
                      SetupVertexAttrib(w, loc, size, stride, offset, instanced),
                      attributes, locations, stride, instanced, i + 1, offset + size)
             ELSE Panic(w)

\* setup_vertex_attribs::<D>(program, instanced)
SetupVertexAttribs(w, attributes, locations, instanced) ==
    SetupVertexAttribsLoop(w, attributes, locations, VertexStride(attributes),
                           instanced, 1, 0)

\* The locations a linked program gives the attributes of a schema when it
\* assigns them in order from base: a 16-component attribute takes four.
RECURSIVE PackedLocation(_, _, _)
PackedLocation(attributes, base, i) ==
    IF i = 1 THEN base
    ELSE PackedLocation(attributes, base, i - 1)
         + (IF attributes[i - 1] = 16 THEN 4 ELSE 1)

PackedLocations(attributes, base) ==
    [i \in 1..Len(attributes) |-> PackedLocation(attributes, base, i)]

\* ------------------------------------------------------------------ meshes
\* The vertex type V of the programs (pos: 2, uv: 2, extra: 1) and the
\* instance type I of draw_instanced (a 4x4 matrix)
VertexAttributes == <<2, 2, 1>>
InstanceAttributes == <<16>>
VertexLocations == PackedLocations(VertexAttributes, 0)
InstanceLocations == PackedLocations(InstanceAttributes, 3)

\* A MeshBuilder holding v vertices of type V and k indices
Builder(v, k) ==
    [vertex_data |-> [i \in 1..(v * VertexStride(VertexAttributes)) |-> i],
     indices |-> [i \in 1..k |-> (i - 1) % v],
     next_index |-> v]

MeshBuilders == {Builder(1, 0), Builder(1, 1), Builder(3, 3)}

\* The schemas the layout engine is run on: attribute sizes are i32
LayoutSizes == {-1, 0, 1, 2, 3, 4, 5, 16}
LayoutSchemas == UNION {[1..n -> LayoutSizes] : n \in 0..MaxAttributes}

\* The primitive types P and draw modes the meshes are created with
MeshKinds == {<<"TRIANGLES", "Draw2D">>, <<"POINTS", "Draw3D">>}

\* A slice of n instances of type I, as the floats in memory
Instances(n) == [i \in 1..(n * VertexStride(InstanceAttributes)) |-> 100 + i]
InstanceSlices == {0, 1, 2}

\* MeshUsage::as_gl
MeshUsageAsGl(usage) ==
    CASE usage = "StaticDraw" -> "STATIC_DRAW"
      [] usage = "DynamicDraw" -> "DYNAMIC_DRAW"
      [] usage = "StreamDraw" -> "STREAM_DRAW"

\* GlProgram::bind that does not record the program in the cache
GlProgramBindAltForgetsCache(w, p) ==
    IF w.cache.bound_program # Some(programs[p].id)
    THEN gl_use_program(w, programs[p].program)
    ELSE w

\* GlProgram::bind
GlProgramBind(w, p) ==
    IF w.cache.bound_program # Some(programs[p].id)
    THEN gl_use_program([w EXCEPT !.cache.bound_program = Some(programs[p].id)],
                        programs[p].program)
    ELSE w

\* DrawMode::bind without the cache test: applies the mode on every call
DrawModeBindAltAlwaysApplies(w, mode) ==
    LET w1 == [w EXCEPT !.cache.draw_mode = Some(mode)]
    IN  IF mode = "Draw2D"
        THEN gl_set_flag(gl_set_flag(w1, "CULL_FACE", FALSE), "DEPTH_TEST", FALSE)
        ELSE gl_set_flag(gl_set_flag(w1, "CULL_FACE", TRUE), "DEPTH_TEST", TRUE)

\* DrawMode::bind
DrawModeBind(w, mode) ==
    IF w.cache.draw_mode # Some(mode)
    THEN LET w1 == [w EXCEPT !.cache.draw_mode = Some(mode)]
         IN  IF mode = "Draw2D"
             THEN gl_set_flag(gl_set_flag(w1, "CULL_FACE", FALSE), "DEPTH_TEST", FALSE)
             ELSE gl_set_flag(gl_set_flag(w1, "CULL_FACE", TRUE), "DEPTH_TEST", TRUE)
    ELSE w

\* Uniforms::update(context, gl_uniforms): the uniform values go to the
\* device's current program
UniformsUpdate(w) ==
    Issue(w, CallOn("uniforms.update", "", <<>>, <<>>, Some(w.gl.current_program)))

\* Mesh::new: the device calls
MeshNewCalls(w, vao, vbo, ibo) ==
    LET w1 == gl_bind_vertex_array(Issue(w, Call("create_vertex_array", "", <<>>)), vao)
        w2 == Issue(Issue(w1, Call("create_buffer", "", <<>>)),
                    Call("create_buffer", "", <<>>))
    IN  gl_bind_buffer(gl_bind_buffer(w2, "ARRAY_BUFFER", vbo),
                       "ELEMENT_ARRAY_BUFFER", ibo)

\* The Mesh value Mesh::new returns
MeshValue(vao, vbo, ibo, p, primitive, draw_mode) ==
    [vao |-> vao, vbo |-> vbo, ibo |-> ibo, program |-> p, num_indices |-> 0,
     primitive |-> primitive, draw_mode |-> draw_mode]

\* Mesh::bind
MeshBind(w, m) ==
    gl_bind_buffer(gl_bind_vertex_array(w, meshes[m].vao), "ARRAY_BUFFER", meshes[m].vbo)

\* Mesh::build_from: the num_indices it assigns
BuildFromNumIndicesAltKeepsOld(m, builder) ==
    IF Len(builder.indices) = 0 THEN meshes[m].num_indices ELSE Len(builder.indices)

BuildFromNumIndices(m, builder) == Len(builder.indices)

\* Mesh::build_from: the device calls
MeshBuildFrom(w, m, builder, usage) ==
    IF BuildFromNumIndices(m, builder) = 0 THEN w
    ELSE LET w1 == SetupVertexAttribs(MeshBind(w, m), VertexAttributes,
                                      VertexLocations, FALSE)
             w2 == gl_buffer_data(w1, "ARRAY_BUFFER", builder.vertex_data,
                                  MeshUsageAsGl(usage))
         IN  gl_buffer_data(w2, "ELEMENT_ARRAY_BUFFER", builder.indices,
                            MeshUsageAsGl(usage))

\* The calls before the draw call, the uniforms pushed only when the program
\* bind was not elided
DrawPreambleAltUpdatesOnRebind(w, m, s) ==
    LET w1 == MeshBind(w, m)
        w2 == GlProgramBind(w1, meshes[m].program)
        w3 == IF w2.calls = w1.calls THEN w2 ELSE UniformsUpdate(w2)
    IN  DrawModeBind(SurfaceBind(w3, s), meshes[m].draw_mode)

\* The preamble shared by Mesh::draw and Mesh::draw_instanced
DrawPreamble(w, m, s) ==
    DrawModeBind(
        SurfaceBind(
            UniformsUpdate(GlProgramBind(MeshBind(w, m), meshes[m].program)),
            s),
        meshes[m].draw_mode)

\* Mesh::draw without the early return on an empty mesh
MeshDrawAltNoEarlyReturn(w, m, s) ==
    gl_draw_elements(DrawPreamble(w, m, s), "draw_elements",
                     meshes[m].primitive, meshes[m].num_indices,
                     "UNSIGNED_SHORT", <<>>)

\* Mesh::draw that issues the draw call before binding the surface
MeshDrawAltDrawsBeforeSurfaceBind(w, m, s) ==
    IF meshes[m].num_indices = 0 THEN w
    ELSE DrawModeBind(
             SurfaceBind(
                 gl_draw_elements(
                     UniformsUpdate(GlProgramBind(MeshBind(w, m), meshes[m].program)),
                     "draw_elements", meshes[m].primitive, meshes[m].num_indices,
                     "UNSIGNED_SHORT", <<>>),
                 s),
             meshes[m].draw_mode)

\* Mesh::draw
MeshDraw(w, m, s) ==
    IF meshes[m].num_indices = 0 THEN w
    ELSE gl_draw_elements(DrawPreamble(w, m, s), "draw_elements",
                          meshes[m].primitive, meshes[m].num_indices,
                          "UNSIGNED_SHORT", <<>>)

\* Mesh::draw_instanced that skips the upload when the buffer already holds
\* the same data
MeshDrawInstancedAltSkipsSameData(w, m, s, n) ==
    IF meshes[m].num_indices = 0 \/ n = 0 THEN w
    ELSE LET w1 == SetupVertexAttribs(DrawPreamble(w, m, s), InstanceAttributes,
                                      InstanceLocations, TRUE)
             data == SubSeq(Instances(n), 1, n * VertexStride(InstanceAttributes))
             w2 == IF w1.gl.buffer_data[w1.gl.array_buffer] = Some(data) THEN w1
                   ELSE gl_buffer_data(w1, "ARRAY_BUFFER", data,
                                       MeshUsageAsGl("StreamDraw"))
         IN  gl_draw_elements(w2, "draw_elements_instanced", meshes[m].primitive,
                              meshes[m].num_indices, "UNSIGNED_SHORT", <<n>>)

\* Mesh::draw_instanced, instances being a slice of n instances
MeshDrawInstanced(w, m, s, n) ==
    IF meshes[m].num_indices = 0 \/ n = 0 THEN w
    ELSE LET w1 == SetupVertexAttribs(DrawPreamble(w, m, s), InstanceAttributes,
                                      InstanceLocations, TRUE)
             data == SubSeq(Instances(n), 1, n * VertexStride(InstanceAttributes))
             w2 == gl_buffer_data(w1, "ARRAY_BUFFER", data, MeshUsageAsGl("StreamDraw"))
         IN  gl_draw_elements(w2, "draw_elements_instanced", meshes[m].primitive,
                              meshes[m].num_indices, "UNSIGNED_SHORT", <<n>>)

\* GlProgram::load_shader
LoadShader(w, shader_type, compiled) ==
    LET w1 == Issue(w, CallP("create_shader", "", <<shader_type>>, <<>>))
        w2 == Issue(Issue(w1, Call("shader_source", "", <<>>)),
                    Call("compile_shader", "", <<>>))
        w3 == Issue(w2, CallP("get_shader_parameter", "", <<"COMPILE_STATUS">>, <<>>))
    IN  IF compiled THEN w3
        ELSE Panic(Issue(w3, Call("get_shader_info_log", "", <<>>)))

\* GlProgram::new: the device calls; the flags are what the device reports
\* for the two compilations and the link
GlProgramNewCalls(w, program, vert_ok, frag_ok, link_ok) ==
    LET w1 == LoadShader(w, "VERTEX_SHADER", vert_ok)
        w2 == LoadShader(w1, "FRAGMENT_SHADER", frag_ok)
        w3 == Issue(w2, Call("create_program", "", <<>>))
        w4 == Issue(Issue(w3, Call("attach_shader", "", <<program>>)),
                    Call("attach_shader", "", <<program>>))
        w5 == Issue(Issue(w4, Call("link_program", "", <<program>>)),
                    CallP("get_program_parameter", "", <<"LINK_STATUS">>, <<program>>))
    IN  IF w1.panic THEN w1
        ELSE IF w2.panic THEN w2
        ELSE IF ~link_ok
        THEN Panic(Issue(w5, Call("get_program_info_log", "", <<program>>)))
        ELSE w5

\* The GlProgram value GlProgram::new returns: the program and the two
\* shaders load_shader created for it
GlProgramValue(program, id) ==
    [program |-> program, id |-> id,
     vert_shader |-> 2 * program - 1, frag_shader |-> 2 * program]

\* GlProgram::clone done by borrowing, the strong count left as it is
GlProgramCloneAltBorrows(strong, p) == strong

\* GlProgram::clone: Rc::clone increments the strong count
GlProgramClone(strong, p) == [strong EXCEPT ![p] = @ + 1]

\* ------------------------------------------------------------------ drops
\* WebGl2RenderingContext::delete_framebuffer: a bound framebuffer is unbound
gl_delete_framebuffer(w, fb) ==
    LET g == w.gl
        g2 == [g EXCEPT !.draw_framebuffer = IF @ = fb THEN 0 ELSE @,
                        !.read_framebuffer = IF @ = fb THEN 0 ELSE @,
                        !.framebuffer_attachment[fb] = <<"NONE", 0>>]
    IN  Issue([w EXCEPT !.gl = g2], Call("delete_framebuffer", "", <<fb>>))

\* An attachment that is deleted is detached from the framebuffer bound for
\* drawing
Detach(g, attachment) ==
    IF g.draw_framebuffer # 0 /\ g.framebuffer_attachment[g.draw_framebuffer] = attachment
    THEN [g EXCEPT !.framebuffer_attachment[g.draw_framebuffer] = <<"NONE", 0>>]
    ELSE g

\* WebGl2RenderingContext::delete_texture: the texture is unbound from every
\* unit
gl_delete_texture(w, texture) ==
    LET g == Detach(w.gl, <<"TEXTURE_2D", texture>>)
        g2 == [g EXCEPT !.texture_binding =
                            [u \in TextureUnits |-> IF @[u] = texture THEN 0 ELSE @[u]],
                        !.texture_data[texture] = None]
    IN  Issue([w EXCEPT !.gl = g2], Call("delete_texture", "", <<texture>>))

\* WebGl2RenderingContext::delete_renderbuffer
gl_delete_renderbuffer(w, renderbuffer) ==
    LET g == Detach(w.gl, <<"RENDERBUFFER", renderbuffer>>)
        g2 == [g EXCEPT !.renderbuffer_binding = IF @ = renderbuffer THEN 0 ELSE @]
    IN  Issue([w EXCEPT !.gl = g2], Call("delete_renderbuffer", "", <<renderbuffer>>))

\* WebGl2RenderingContext::delete_vertex_array: a bound vertex array is unbound
gl_delete_vertex_array(w, vao) ==
    Issue([w EXCEPT !.gl.vertex_array = IF @ = vao THEN 0 ELSE @],
          Call("delete_vertex_array", "", <<vao>>))

\* WebGl2RenderingContext::delete_buffer: the buffer is unbound from
\* ARRAY_BUFFER and from the bound vertex array
gl_delete_buffer(w, buffer) ==
    LET g == w.gl
        g2 == [g EXCEPT !.array_buffer = IF @ = buffer THEN 0 ELSE @,
                        !.buffer_data[buffer] = None]
        g3 == IF g.vertex_array \in VertexArrayHandles
                 /\ g.element_array_buffer[g.vertex_array] = buffer
              THEN [g2 EXCEPT !.element_array_buffer[g.vertex_array] = 0]
              ELSE g2
    IN  Issue([w EXCEPT !.gl = g3], Call("delete_buffer", "", <<buffer>>))

\* WebGl2RenderingContext::delete_program / delete_shader
gl_delete_program(w, program) == Issue(w, Call("delete_program", "", <<program>>))
gl_delete_shader(w, shader) == Issue(w, Call("delete_shader", "", <<shader>>))

\* Texture2d::drop
Texture2dDrop(w, t) == gl_delete_texture(w, textures[t].texture)

\* Renderbuffer::drop
RenderbufferDrop(w, r) == gl_delete_renderbuffer(w, renderbuffers[r].renderbuffer)

\* Framebuffer::drop with the attachment left behind
FramebufferDropAltLeaksAttachment(w, f) ==
    gl_delete_framebuffer(w, framebuffers[f].framebuffer)

\* Framebuffer::drop, and then the drop of its attachment field
FramebufferDrop(w, f) ==
    LET w1 == gl_delete_framebuffer(w, framebuffers[f].framebuffer)
        attachment == framebuffers[f].attachment
    IN  IF attachment[1] = "TEXTURE_2D" THEN Texture2dDrop(w1, attachment[2])
        ELSE RenderbufferDrop(w1, attachment[2])

\* GlProgramInner::drop
GlProgramInnerDrop(w, p) ==
    gl_delete_shader(
        gl_delete_shader(gl_delete_program(w, programs[p].program),
                         programs[p].vert_shader),
        programs[p].frag_shader)

\* The drop of a GlProgram: Rc::drop decrements the strong count and drops
\* the GlProgramInner when none is left
GlProgramDrop(w, p) ==
    IF program_strong[p] = 1 THEN GlProgramInnerDrop(w, p) ELSE w

\* Mesh::drop, and then the drop of its program field
MeshDrop(w, m) ==
    LET w1 == gl_delete_vertex_array(w, meshes[m].vao)
        w2 == gl_delete_buffer(gl_delete_buffer(w1, meshes[m].vbo), meshes[m].ibo)
    IN  GlProgramDrop(w2, meshes[m].program)

\* The bag of the delete_* calls among the calls of an operation, each as
\* <<name, handle>>
DeleteNames ==
    {"delete_framebuffer", "delete_texture", "delete_renderbuffer", "delete_vertex_array",
     "delete_buffer", "delete_program", "delete_shader"}
DeleteCalls(issued) ==
    LET selected == SelectSeq(issued, LAMBDA c : c.name \in DeleteNames)
        Entry(i) == <<selected[i].name, selected[i].args[1]>>
    IN  [e \in {Entry(i) : i \in 1..Len(selected)} |->
            Cardinality({i \in 1..Len(selected) : Entry(i) = e})]

\* ------------------------------------------------------------- MeshBuilder
\* MeshIndex = u16: MeshIndex::max_value(), and the modulus of its arithmetic
MeshIndexMax == 65535
MeshIndexModulus == MeshIndexMax + 1

\* The instantiations MeshBuilder<V, P> that are modelled.  V is given by
\* its ATTRIBUTES, whose sum is V::stride(), and by the number of floats its
\* add_to_mesh pushes per vertex: the first V pushes as many floats as it
\* declares, the second one pushes fewer.  P is Triangles, Lines or Points.
BuilderTypes ==
    {[attributes |-> a[1], emits |-> a[2], primitive |-> pr] :
        a \in {<<VertexAttributes, 5>>, <<(<<2>>), 1>>},
        pr \in {"Triangles", "Lines", "Points"}}

\* The number of indices triangle, line and point push
PrimitiveArity(pr) ==
    CASE pr = "Triangles" -> 3
      [] pr = "Lines" -> 2
      [] pr = "Points" -> 1

\* The vertices passed to vert, and the indices passed to triangle/line/point
VertexValues == {1, 2}
IndexArgs(pr) ==
    {SubSeq(<<0, 1, 2>>, 1, PrimitiveArity(pr)), SubSeq(<<2, 1, 0>>, 1, PrimitiveArity(pr))}

\* The largest number of vertices and indices added one call at a time
MaxSmallVerts == 3
MaxIndices == 3

\* The length of the slice a bulk verts call is given
BulkVerts == MeshIndexMax - 2

\* vertex_data is the Vec<f32>, held as runs [vert, count] of equal
\* consecutive vertices; the floats of a run are count times those
\* add_to_mesh pushes for vert.
PushVertices(data, v, n) ==
    IF n = 0 THEN data
    ELSE IF data # <<>> /\ data[Len(data)].vert = v
    THEN [data EXCEPT ![Len(data)].count = @ + n]
    ELSE Append(data, [vert |-> v, count |-> n])

RECURSIVE ExtendVertexData(_, _, _)
ExtendVertexData(data, other_data, i) ==
    IF i > Len(other_data) THEN data
    ELSE ExtendVertexData(PushVertices(data, other_data[i].vert, other_data[i].count),
                          other_data, i + 1)

\* The number of vertices pushed into vertex_data
RECURSIVE VertexCount(_)
VertexCount(data) ==
    IF data = <<>> THEN 0 ELSE data[1].count + VertexCount(Tail(data))

\* vertex_data.len()
VertexDataLen(b, type) == VertexCount(b.vertex_data) * type.emits

\* The floats add_to_mesh pushes for vertex v
VertexFloats(v, type) == [k \in 1..type.emits |-> 10 * v + k]

\* The Vec<f32> spelled out
RECURSIVE VertexDataFloats(_, _)
VertexDataFloats(data, type) ==
    IF data = <<>> THEN <<>>
    ELSE IF data[1].count = 1
    THEN VertexFloats(data[1].vert, type) \o VertexDataFloats(Tail(data), type)
    ELSE VertexFloats(data[1].vert, type)
         \o VertexDataFloats(<<[data[1] EXCEPT !.count = @ - 1]>> \o Tail(data), type)

\* MeshBuilder::new
MeshBuilderNew == [vertex_data |-> <<>>, indices |-> <<>>, next_index |-> 0]

\* The outcome of a MeshBuilder method: the builder, whether the call
\* panicked, and what it returned
Outcome(b, panic, ret) == [b |-> b, panic |-> panic, ret |-> ret]

\* MeshBuilder::vert with the limit one vertex lower
MeshBuilderVertAltLimitOneLower(b, v) ==
    IF ~(b.next_index < MeshIndexMax - 1) THEN Outcome(b, TRUE, None)
    ELSE Outcome([b EXCEPT !.next_index = (@ + 1) % MeshIndexModulus,
                           !.vertex_data = PushVertices(@, v, 1)],
                 FALSE, Some(b.next_index))

\* MeshBuilder::vert
MeshBuilderVert(b, v) ==
    IF ~(b.next_index < MeshIndexMax) THEN Outcome(b, TRUE, None)
    ELSE Outcome([b EXCEPT !.next_index = (@ + 1) % MeshIndexModulus,
                           !.vertex_data = PushVertices(@, v, 1)],
                 FALSE, Some(b.next_index))

\* MeshBuilder::verts on a Vec of n copies of v: the loop calls vert until
\* the Vec is exhausted or vert panics, that is k times; it returns the
\* indices first .. first + k - 1, given here as <<first, k>>.
MeshBuilderVerts(b, v, n) ==
    LET room == MeshIndexMax - b.next_index
        k == IF n <= room THEN n ELSE room
    IN  Outcome([b EXCEPT !.next_index = @ + k,
                          !.vertex_data = PushVertices(@, v, k)],
                k < n, <<b.next_index, k>>)

\* MeshBuilder::clear
MeshBuilderClear(b) ==
    [b EXCEPT !.vertex_data = <<>>, !.indices = <<>>, !.next_index = 0]

\* MeshBuilder::triangle / line / point putting the indices in front
MeshBuilderPrimitiveAltPrepends(b, indices) == [b EXCEPT !.indices = indices \o @]

\* MeshBuilder::triangle / line / point
MeshBuilderPrimitive(b, indices) == [b EXCEPT !.indices = @ \o indices]

\* The first position of other's indices whose shifted value exceeds
\* u16::MAX, or 0
FirstOverflow(indices, start_index) ==
    LET Overflows(i) == indices[i] + start_index > MeshIndexMax
    IN  IF \E i \in 1..Len(indices) : Overflows(i)
        THEN CHOOSE i \in 1..Len(indices) :
                 Overflows(i) /\ \A j \in 1..(i - 1) : ~Overflows(j)
        ELSE 0

\* MeshBuilder::extend.  The u16 additions panic on overflow when the build
\* has overflow checks and wrap when it has none.
MeshBuilderExtend(b, other, type, overflow_checks) ==
    LET stride == VertexStride(type.attributes)
        start_index == b.next_index
        len == VertexDataLen(other, type)
        num_verts == (len \div stride) % MeshIndexModulus
        num_verts2 == other.next_index
        b1 == [b EXCEPT !.next_index = (@ + num_verts) % MeshIndexModulus]
        b2 == [b1 EXCEPT !.vertex_data = ExtendVertexData(@, other.vertex_data, 1)]
        first == FirstOverflow(other.indices, start_index)
        shifted == [i \in 1..Len(other.indices) |->
                       (other.indices[i] + start_index) % MeshIndexModulus]
    IN  IF num_verts * stride # len THEN Outcome(b, TRUE, None)
        ELSE IF num_verts # num_verts2 THEN Outcome(b, TRUE, None)
        ELSE IF b.next_index + num_verts > MeshIndexMax /\ overflow_checks
        THEN Outcome(b, TRUE, None)
        ELSE IF first # 0 /\ overflow_checks
        THEN Outcome([b2 EXCEPT !.indices = @ \o SubSeq(shifted, 1, first - 1)],
                     TRUE, None)
        ELSE Outcome([b2 EXCEPT !.indices = @ \o shifted], FALSE, None)

\* The builder made by new, verts on n copies of v, and one primitive call
\* (none when indices is empty)
BuilderWith(v, n, indices) ==
    MeshBuilderPrimitive(MeshBuilderVerts(MeshBuilderNew, v, n).b, indices)

\* The builders passed to extend
OtherBuilders(type) ==
    LET indices == SubSeq(<<0, 1, 2>>, 1, PrimitiveArity(type.primitive))
    IN  {BuilderWith(1, 0, indices), BuilderWith(2, 1, <<>>), BuilderWith(1, 2, indices),
         BuilderWith(1, BulkVerts, <<>>)}

\* The world an operation starts in
World == [cache |-> cache, gl |-> gl, calls |-> <<>>, panic |-> FALSE]

Op(name, a, b) == [op |-> name, recv |-> a, arg |-> b]

Commit(w) ==
    /\ cache' = w.cache
    /\ gl' = w.gl
    /\ calls' = w.calls
    /\ panicked' = w.panic

Init ==
    /\ \E size \in Sizes :
          /\ screen = ScreenSurfaceNew(size, 0)
          /\ gl = GlInit(size)
    /\ cache = GlContextCacheNew
    /\ framebuffers = <<>>
    /\ textures = <<>>
    /\ renderbuffers = <<>>
    /\ programs = <<>>
    /\ meshes = <<>>
    /\ built = <<>>
    /\ next_id = [framebuffer |-> 1, texture |-> 0, program |-> 0]
    /\ calls = <<>>
    /\ last = Op("GlContext::new", 0, 0)
    /\ bind_last = None
    /\ bind_differs = FALSE
    /\ panicked = FALSE
    /\ mesh_builder = None
    /\ builder_type = [attributes |-> VertexAttributes, emits |-> 5, primitive |-> "Triangles"]
    /\ verts_since_clear = None
    /\ program_strong = <<>>
    /\ program_handles = <<>>
    /\ dropped = {}
    /\ deleted = EmptyBag

\* The history of Surface::bind calls: an operation that calls
\* Surface::bind(s) records s and whether s differs from the surface of the
\* Surface::bind call before it (the first call differs from none).
NoBind == UNCHANGED <<bind_last, bind_differs>>

RecordBind(s) ==
    /\ bind_differs' = (bind_last # Some(s))
    /\ bind_last' = Some(s)

\* Surface::bind(s)
Bind(s) ==
    /\ ~panicked
    /\ Commit(SurfaceBind(World, s))
    /\ last' = Op("bind", s, 0)
    /\ RecordBind(s)
    /\ UNCHANGED <<screen, framebuffers, textures, renderbuffers, programs, meshes, built, next_id>>
    /\ UNCHANGED <<builder_vars, lifetime_vars>>

\* Surface::bind_read(s)
BindRead(s) ==
    /\ ~panicked
    /\ Commit(SurfaceBindRead(World, s))
    /\ last' = Op("bind_read", s, 0)
    /\ NoBind
    /\ UNCHANGED <<screen, framebuffers, textures, renderbuffers, programs, meshes, built, next_id>>
    /\ UNCHANGED <<builder_vars, lifetime_vars>>

\* Surface::clear(s, buffers)
Clear(s, buffers) ==
    /\ ~panicked
    /\ last' = Op("clear", s, buffers)
    /\ Commit(SurfaceClear(World, s, buffers))
    /\ IF buffers = <<>> THEN NoBind ELSE RecordBind(s)
    /\ UNCHANGED <<screen, framebuffers, textures, renderbuffers, programs, meshes, built, next_id>>
    /\ UNCHANGED <<builder_vars, lifetime_vars>>

\* ScreenSurface::set_size(new_size)
SetSize(new_size) ==
    /\ ~panicked
    /\ screen' = ScreenResized(screen, new_size)
    /\ Commit(ScreenSetSizeViewport(World, screen'))
    /\ last' = Op("set_size", new_size, 0)
    /\ NoBind
    /\ UNCHANGED <<framebuffers, textures, renderbuffers, programs, meshes, built, next_id>>
    /\ UNCHANGED <<builder_vars, lifetime_vars>>

\* Texture2d::empty(size, min_filter)
Texture2dEmptyAs(texture, size, min_filter) ==
    /\ ~panicked
    /\ Len(textures) < MaxTextures
    /\ last' = Op("Texture2d::empty", size, min_filter)
    /\ NoBind
    /\ IF HasMipmap(min_filter)
       THEN /\ Commit(Panic(World))
            /\ UNCHANGED <<textures, next_id>>
       ELSE /\ Commit(TextureCreate(World, texture, size, "empty", min_filter))
            /\ textures' = Append(textures, Texture2dValue(texture, size, next_id.texture))
            /\ next_id' = [next_id EXCEPT !.texture = @ + 1]
    /\ UNCHANGED <<screen, framebuffers, renderbuffers, programs, meshes, built>>
    /\ UNCHANGED <<builder_vars, lifetime_vars>>

\* Texture2d::empty with a handle the host never gave out before
Texture2dEmpty(size, min_filter) == Texture2dEmptyAs(Len(textures) + 1, size, min_filter)

\* Texture2d::from_image(image, min_filter), the image of the given size
Texture2dFromImage(size, min_filter) ==
    /\ ~panicked
    /\ Len(textures) < MaxTextures
    /\ last' = Op("Texture2d::from_image", size, min_filter)
    /\ NoBind
    /\ LET texture == Len(textures) + 1 IN
       /\ Commit(TextureCreate(World, texture, size, "image", min_filter))
       /\ textures' = Append(textures, Texture2dValue(texture, size, next_id.texture))
       /\ next_id' = [next_id EXCEPT !.texture = @ + 1]
    /\ UNCHANGED <<screen, framebuffers, renderbuffers, programs, meshes, built>>
    /\ UNCHANGED <<builder_vars, lifetime_vars>>

\* Texture2d::from_data(size, data, min_filter)
Texture2dFromData(size, min_filter) ==
    /\ ~panicked
    /\ Len(textures) < MaxTextures
    /\ last' = Op("Texture2d::from_data", size, min_filter)
    /\ NoBind
    /\ LET texture == Len(textures) + 1 IN
       /\ Commit(TextureCreate(World, texture, size, "data", min_filter))
       /\ textures' = Append(textures, Texture2dValue(texture, size, next_id.texture))
       /\ next_id' = [next_id EXCEPT !.texture = @ + 1]
    /\ UNCHANGED <<screen, framebuffers, renderbuffers, programs, meshes, built>>
    /\ UNCHANGED <<builder_vars, lifetime_vars>>

\* Texture2d::bind(texture_unit)
TextureBind(t, texture_unit) ==
    /\ ~panicked
    /\ Commit(Texture2dBind(World, t, texture_unit))
    /\ last' = Op("Texture2d::bind", t, texture_unit)
    /\ NoBind
    /\ UNCHANGED <<screen, framebuffers, textures, renderbuffers, programs, meshes, built, next_id>>
    /\ UNCHANGED <<builder_vars, lifetime_vars>>

\* Texture2d::set_contents(format, data)
SetContents(t) ==
    /\ ~panicked
    /\ Commit(Texture2dSetContents(World, t))
    /\ last' = Op("Texture2d::set_contents", t, 0)
    /\ NoBind
    /\ UNCHANGED <<screen, framebuffers, textures, renderbuffers, programs, meshes, built, next_id>>
    /\ UNCHANGED <<builder_vars, lifetime_vars>>

\* Framebuffer::new(attachment) after the attachment was created in world w:
\* the device answers the completeness query with status.  An incomplete
\* framebuffer panics; otherwise the Framebuffer value is returned and owns
\* the attachment.
FramebufferNew(w, framebuffer, kind, index, handle, size, status) ==
    IF status # "FRAMEBUFFER_COMPLETE"
    THEN /\ Commit(FramebufferNotComplete(
                       FramebufferNewCalls(w, framebuffer, kind, handle), status))
         /\ UNCHANGED <<framebuffers, next_id>>
    ELSE /\ Commit(FramebufferNewCalls(w, framebuffer, kind, handle))
         /\ framebuffers' = Append(framebuffers,
                FramebufferValue(framebuffer, kind, index, size, next_id.framebuffer))
         /\ next_id' = [next_id EXCEPT !.framebuffer = @ + 1]

\* Framebuffer::new_with_texture(size, format, min_filter, ..): Texture2d::empty,
\* then Framebuffer::new
NewWithTexture(size, min_filter, status) ==
    /\ ~panicked
    /\ Len(framebuffers) < MaxFramebuffers
    /\ Len(textures) < MaxTextures
    /\ ~HasMipmap(min_filter)
    /\ last' = Op("Framebuffer::new_with_texture", size, status)
    /\ NoBind
    /\ LET texture == Len(textures) + 1
           w == TextureCreate(World, texture, size, "empty", min_filter)
       IN  /\ FramebufferNew(w, Len(framebuffers) + 1, "TEXTURE_2D", texture, texture,
                             size, status)
           /\ textures' = Append(textures,
                  [Texture2dValue(texture, size, next_id.texture)
                       EXCEPT !.owner = Len(framebuffers) + 1])
    /\ UNCHANGED <<screen, renderbuffers, programs, meshes, built>>
    /\ UNCHANGED <<builder_vars, lifetime_vars>>

\* Framebuffer::new_with_renderbuffer(size, format): Renderbuffer::new, then
\* Framebuffer::new
NewWithRenderbufferAs(framebuffer, renderbuffer, size, status) ==
    /\ ~panicked
    /\ Len(framebuffers) < MaxFramebuffers
    /\ last' = Op("Framebuffer::new_with_renderbuffer", size, status)
    /\ NoBind
    /\ LET w == RenderbufferNewCalls(World, renderbuffer, size)
       IN  /\ FramebufferNew(w, framebuffer, "RENDERBUFFER", Len(renderbuffers) + 1,
                             renderbuffer, size, status)
           /\ renderbuffers' = Append(renderbuffers,
                  [renderbuffer |-> renderbuffer, size |-> size,
                   owner |-> Len(framebuffers) + 1])
    /\ UNCHANGED <<screen, textures, programs, meshes, built>>
    /\ UNCHANGED <<builder_vars, lifetime_vars>>

\* Framebuffer::new_with_renderbuffer with handles the host never gave out
\* before
NewWithRenderbuffer(size, status) ==
    NewWithRenderbufferAs(Len(framebuffers) + 1, Len(renderbuffers) + 1, size, status)

\* Framebuffer::blit_to(surface)
BlitTo(f, s) ==
    /\ ~panicked
    /\ f # 0
    /\ Commit(FramebufferBlitTo(World, f, s))
    /\ last' = Op("blit_to", f, s)
    /\ RecordBind(s)
    /\ UNCHANGED <<screen, framebuffers, textures, renderbuffers, programs, meshes, built, next_id>>
    /\ UNCHANGED <<builder_vars, lifetime_vars>>

\* GlProgram::new(vert_shader_source, frag_shader_source)
GlProgramNewUpTo(max_programs, program, vert_ok, frag_ok, link_ok) ==
    /\ ~panicked
    /\ Len(programs) < max_programs
    /\ last' = Op("GlProgram::new", <<vert_ok, frag_ok, link_ok>>, 0)
    /\ NoBind
    /\ LET w == GlProgramNewCalls(World, program, vert_ok, frag_ok, link_ok)
       IN  /\ Commit(w)
           /\ IF w.panic
              THEN UNCHANGED <<programs, next_id, program_strong, program_handles>>
              ELSE /\ programs' = Append(programs, GlProgramValue(program, next_id.program))
                   /\ next_id' = [next_id EXCEPT !.program = @ + 1]
                   /\ program_strong' = Append(program_strong, 1)
                   /\ program_handles' = Append(program_handles, 1)
    /\ UNCHANGED <<screen, framebuffers, textures, renderbuffers, meshes, built>>
    /\ UNCHANGED <<builder_vars, dropped, deleted>>

GlProgramNew(vert_ok, frag_ok, link_ok) ==
    GlProgramNewUpTo(MaxPrograms, Len(programs) + 1, vert_ok, frag_ok, link_ok)

\* Mesh::new(program, draw_mode), of primitive type P
MeshNewUpTo(max_meshes, p, primitive, draw_mode) ==
    /\ ~panicked
    /\ Len(meshes) < max_meshes
    /\ program_handles[p] > 0
    /\ last' = Op("Mesh::new", p, 0)
    /\ NoBind
    /\ LET vao == Len(meshes) + 2
           vbo == 2 * Len(meshes) + 2
           ibo == 2 * Len(meshes) + 3
       IN  /\ Commit(MeshNewCalls(World, vao, vbo, ibo))
           /\ meshes' = Append(meshes, MeshValue(vao, vbo, ibo, p, primitive, draw_mode))
           /\ built' = Append(built, None)
    /\ program_strong' = GlProgramClone(program_strong, p)
    /\ UNCHANGED <<screen, framebuffers, textures, renderbuffers, programs, next_id>>
    /\ UNCHANGED <<builder_vars, program_handles, dropped, deleted>>

MeshNew(p, primitive, draw_mode) == MeshNewUpTo(MaxMeshes, p, primitive, draw_mode)

\* Mesh::build_from(builder, usage)
BuildFrom(m, builder, usage) ==
    /\ ~panicked
    /\ last' = Op("build_from", m, builder)
    /\ NoBind
    /\ meshes' = [meshes EXCEPT ![m].num_indices = BuildFromNumIndices(m, builder)]
    /\ built' = [built EXCEPT ![m] = Some(builder)]
    /\ Commit(MeshBuildFrom(World, m, builder, usage))
    /\ UNCHANGED <<screen, framebuffers, textures, renderbuffers, programs, next_id>>
    /\ UNCHANGED <<builder_vars, lifetime_vars>>

\* Mesh::draw(surface, uniforms)
Draw(m, s) ==
    /\ ~panicked
    /\ last' = Op("draw", m, s)
    /\ Commit(MeshDraw(World, m, s))
    /\ IF meshes[m].num_indices = 0 THEN NoBind ELSE RecordBind(s)
    /\ UNCHANGED <<screen, framebuffers, textures, renderbuffers, programs, meshes, built, next_id>>
    /\ UNCHANGED <<builder_vars, lifetime_vars>>

\* Mesh::draw_instanced(surface, uniforms, instances), instances of length n
DrawInstanced(m, s, n) ==
    /\ ~panicked
    /\ last' = Op("draw_instanced", m, <<s, n>>)
    /\ Commit(MeshDrawInstanced(World, m, s, n))
    /\ IF meshes[m].num_indices = 0 \/ n = 0 THEN NoBind ELSE RecordBind(s)
    /\ UNCHANGED <<screen, framebuffers, textures, renderbuffers, programs, meshes, built, next_id>>
    /\ UNCHANGED <<builder_vars, lifetime_vars>>

\* setup_vertex_attribs::<D>(program, instanced) for a schema D, on a fresh
\* context
Layout(attributes, instanced) ==
    /\ ~panicked
    /\ last.op = "GlContext::new"
    /\ last' = Op("setup_vertex_attribs", attributes, instanced)
    /\ NoBind
    /\ Commit(SetupVertexAttribs(World, attributes, PackedLocations(attributes, 0),
                                 instanced))
    /\ UNCHANGED <<screen, framebuffers, textures, renderbuffers, programs, meshes, built, next_id>>
    /\ UNCHANGED <<builder_vars, lifetime_vars>>

\* What the host's get_context call answers: an error, no context, or a
\* WebGL 2 context
GetContextOutcomes == {"Err", "Ok(None)", "Ok(Some)"}

\* GlContext::new: what the call does on each answer.  expect panics on an
\* error, ok_or(..)? returns Err on a missing context.
GlContextNewResult(outcome) ==
    CASE outcome = "Err" -> "panic"
      [] outcome = "Ok(None)" -> "Err"
      [] outcome = "Ok(Some)" -> "Ok"

\* GlContext::new: the calls made on the new context
GlContextNewCalls(w) ==
    LET w1 == Issue(w, CallP("enable", "", <<"BLEND">>, <<>>))
        w2 == Issue(w1, CallP("blend_func", "", <<"ONE", "ONE_MINUS_SRC_ALPHA">>, <<>>))
        w3 == Issue(w2, CallP("pixel_storei", "", <<"UNPACK_ALIGNMENT">>, <<1>>))
        w4 == Issue(Issue(w3, Call("create_vertex_array", "", <<>>)),
                    Call("bind_vertex_array", "", <<1>>))
    IN  Issue(Issue(w4, Call("create_buffer", "", <<>>)),
              Call("bind_buffer", "ARRAY_BUFFER", <<1>>))

\* The state before GlContext::new: no context, no cache, no screen surface
InitContext ==
    /\ screen = None
    /\ gl = None
    /\ cache = None
    /\ framebuffers = <<>>
    /\ textures = <<>>
    /\ renderbuffers = <<>>
    /\ programs = <<>>
    /\ meshes = <<>>
    /\ built = <<>>
    /\ next_id = [framebuffer |-> 0, texture |-> 0, program |-> 0]
    /\ calls = <<>>
    /\ last = Op("main", 0, 0)
    /\ bind_last = None
    /\ bind_differs = FALSE
    /\ panicked = FALSE
    /\ mesh_builder = None
    /\ builder_type = [attributes |-> VertexAttributes, emits |-> 5, primitive |-> "Triangles"]
    /\ verts_since_clear = None
    /\ program_strong = <<>>
    /\ program_handles = <<>>
    /\ dropped = {}
    /\ deleted = EmptyBag

\* GlContext::new(canvas_id) on a canvas of the given size, the host
\* answering get_context with outcome
GlContextNew(canvas_size, outcome) ==
    /\ last.op = "main"
    /\ ~panicked
    /\ last' = Op("GlContext::new", canvas_size, <<outcome, GlContextNewResult(outcome)>>)
    /\ panicked' = (GlContextNewResult(outcome) = "panic")
    /\ IF GlContextNewResult(outcome) = "Ok"
       THEN /\ gl' = GlInit(canvas_size)
            /\ cache' = GlContextCacheNew
            /\ screen' = ScreenSurfaceNew(canvas_size, next_id.framebuffer)
            /\ next_id' = [next_id EXCEPT !.framebuffer = @ + 1]
            /\ calls' = GlContextNewCalls([calls |-> <<>>]).calls
       ELSE /\ calls' = <<>>
            /\ UNCHANGED <<gl, cache, screen, next_id>>
    /\ NoBind
    /\ UNCHANGED <<framebuffers, textures, renderbuffers, programs, meshes, built>>
    /\ UNCHANGED <<builder_vars, lifetime_vars>>

\* The most textures, framebuffers and programs created in one behaviour of
\* creates, binds and drops
MaxResources == 2

\* The largest number of GlProgram values the caller holds of one program
MaxHandles == 4

\* A drop or a clone: the device calls of w are issued, the delete calls
\* among them are recorded, and no object is created or changed
Lifetime(name, a, w) ==
    /\ ~panicked
    /\ last' = Op(name, a, 0)
    /\ Commit(w)
    /\ deleted' = deleted (+) DeleteCalls(w.calls)
    /\ NoBind
    /\ UNCHANGED <<screen, framebuffers, textures, renderbuffers, programs, meshes, built,
                   next_id, builder_vars>>

\* program.clone()
CloneGlProgram(p) ==
    /\ program_handles[p] > 0
    /\ program_handles[p] < MaxHandles
    /\ Lifetime("GlProgram::clone", p, World)
    /\ program_strong' = GlProgramClone(program_strong, p)
    /\ program_handles' = [program_handles EXCEPT ![p] = @ + 1]
    /\ UNCHANGED dropped

\* drop(program)
DropGlProgram(p) ==
    /\ program_handles[p] > 0
    /\ Lifetime("GlProgram::drop", p, GlProgramDrop(World, p))
    /\ program_strong' = [program_strong EXCEPT ![p] = @ - 1]
    /\ program_handles' = [program_handles EXCEPT ![p] = @ - 1]
    /\ UNCHANGED dropped

\* drop(mesh)
DropMesh(m) ==
    /\ <<"Mesh", m>> \notin dropped
    /\ Lifetime("Mesh::drop", m, MeshDrop(World, m))
    /\ program_strong' = [program_strong EXCEPT ![meshes[m].program] = @ - 1]
    /\ dropped' = dropped \cup {<<"Mesh", m>>}
    /\ UNCHANGED program_handles

\* drop(texture), of a texture that was not given to a framebuffer
DropTexture2d(t) ==
    /\ textures[t].owner = 0
    /\ <<"Texture2d", t>> \notin dropped
    /\ Lifetime("Texture2d::drop", t, Texture2dDrop(World, t))
    /\ dropped' = dropped \cup {<<"Texture2d", t>>}
    /\ UNCHANGED <<program_strong, program_handles>>

\* drop(framebuffer)
DropFramebuffer(f) ==
    /\ <<"Framebuffer", f>> \notin dropped
    /\ Lifetime("Framebuffer::drop", f, FramebufferDrop(World, f))
    /\ dropped' = dropped \cup {<<"Framebuffer", f>>}
    /\ UNCHANGED <<program_strong, program_handles>>

\* An operation of the MeshBuilder: it issues no device call and touches
\* neither the context nor its objects
BuilderStep(name, a, outcome) ==
    /\ ~panicked
    /\ mesh_builder # None
    /\ last' = Op(name, a, outcome.ret)
    /\ mesh_builder' = Some(outcome.b)
    /\ panicked' = outcome.panic
    /\ calls' = <<>>
    /\ UNCHANGED <<builder_type, context_vars, lifetime_vars>>

\* MeshBuilder::<V, P>::new()
BuilderNew(type) ==
    /\ ~panicked
    /\ mesh_builder = None
    /\ last' = Op("MeshBuilder::new", type, None)
    /\ mesh_builder' = Some(MeshBuilderNew)
    /\ builder_type' = type
    /\ verts_since_clear' = Some(0)
    /\ calls' = <<>>
    /\ UNCHANGED <<panicked, context_vars, lifetime_vars>>

\* MeshBuilder::vert(v)
BuilderVert(v) ==
    /\ mesh_builder # None
    /\ \/ mesh_builder[1].next_index < MaxSmallVerts
       \/ mesh_builder[1].next_index >= BulkVerts
    /\ LET outcome == MeshBuilderVert(mesh_builder[1], v)
       IN  /\ BuilderStep("MeshBuilder::vert", v, outcome)
           /\ verts_since_clear' =
                  IF verts_since_clear # None /\ ~outcome.panic
                  THEN Some(verts_since_clear[1] + 1)
                  ELSE verts_since_clear

\* MeshBuilder::verts(vec![v; n])
BuilderVerts(v, n) ==
    /\ mesh_builder # None
    /\ mesh_builder[1].next_index <= MaxSmallVerts
    /\ LET outcome == MeshBuilderVerts(mesh_builder[1], v, n)
       IN  /\ BuilderStep("MeshBuilder::verts", <<v, n>>, outcome)
           /\ verts_since_clear' =
                  IF verts_since_clear # None
                  THEN Some(verts_since_clear[1] + outcome.ret[2])
                  ELSE verts_since_clear

\* MeshBuilder::triangle(a, b, c) / line(a, b) / point(a)
BuilderPrimitive(indices) ==
    /\ mesh_builder # None
    /\ Len(mesh_builder[1].indices) + Len(indices) <= MaxIndices
    /\ BuilderStep("MeshBuilder::primitive", indices,
                   Outcome(MeshBuilderPrimitive(mesh_builder[1], indices), FALSE, None))
    /\ UNCHANGED verts_since_clear

\* MeshBuilder::clear()
BuilderClear ==
    /\ mesh_builder # None
    /\ BuilderStep("MeshBuilder::clear", 0,
                   Outcome(MeshBuilderClear(mesh_builder[1]), FALSE, None))
    /\ verts_since_clear' = Some(0)

\* MeshBuilder::extend(other), in a build with or without overflow checks
BuilderExtend(other, overflow_checks) ==
    /\ mesh_builder # None
    /\ Len(mesh_builder[1].indices) + Len(other.indices) <= MaxIndices
    /\ verts_since_clear # None
    /\ \/ mesh_builder[1].next_index < MaxSmallVerts
       \/ mesh_builder[1].next_index >= BulkVerts
    /\ LET outcome == MeshBuilderExtend(mesh_builder[1], other, builder_type,
                                        overflow_checks)
       IN  BuilderStep("MeshBuilder::extend", other,
                       [outcome EXCEPT !.ret = Some(overflow_checks)])
    /\ verts_since_clear' = None

\* ------------------------------------------------------------ specifications
\* The surfaces: the screen and the framebuffers, their binds, clears and blits
NextSurface ==
    \/ \E s \in Surfaces : Bind(s)
    \/ \E s \in Surfaces : BindRead(s)
    \/ \E s \in Surfaces, buffers \in ClearBufferLists : Clear(s, buffers)
    \/ \E new_size \in Sizes : SetSize(new_size)
    \/ \E size \in Sizes, status \in FramebufferStatuses :
           NewWithTexture(size, "Nearest", status)
    \/ \E size \in Sizes, status \in FramebufferStatuses :
           NewWithRenderbuffer(size, status)
    \/ \E f \in Surfaces, s \in Surfaces : BlitTo(f, s)

SpecSurface == Init /\ [][NextSurface]_vars

\* The textures: the three constructors, bind and set_contents
NextTexture ==
    \/ \E f \in MinFilters : Texture2dEmpty(<<1, 1>>, f)
    \/ \E f \in MinFilters : Texture2dFromImage(<<1, 1>>, f)
    \/ \E f \in MinFilters : Texture2dFromData(<<1, 1>>, f)
    \/ \E t \in 1..Len(textures), u \in BindUnits : TextureBind(t, u)
    \/ \E t \in 1..Len(textures) : SetContents(t)

SpecTexture == Init /\ [][NextTexture]_vars

\* The meshes: programs, Mesh::new, build_from and the two draw paths, onto
\* the screen
NextMesh ==
    \/ \E vert_ok, frag_ok, link_ok \in BOOLEAN : GlProgramNew(vert_ok, frag_ok, link_ok)
    \/ \E p \in 1..Len(programs), kind \in MeshKinds : MeshNew(p, kind[1], kind[2])
    \/ \E m \in 1..Len(meshes), builder \in MeshBuilders :
          BuildFrom(m, builder, "StaticDraw")
    \/ \E m \in 1..Len(meshes) : Draw(m, 0)
    \/ \E m \in 1..Len(meshes), n \in InstanceSlices : DrawInstanced(m, 0, n)

SpecMesh == Init /\ [][NextMesh]_vars

\* Draws of several meshes of several programs and of both draw modes, onto
\* the screen
NextDraw ==
    \/ \E link_ok \in BOOLEAN : GlProgramNewUpTo(MaxDrawPrograms, Len(programs) + 1, TRUE, TRUE, link_ok)
    \/ \E p \in 1..Len(programs), kind \in MeshKinds :
          MeshNewUpTo(MaxDrawMeshes, p, kind[1], kind[2])
    \/ \E m \in 1..Len(meshes) : BuildFrom(m, Builder(3, 3), "StaticDraw")
    \/ \E m \in 1..Len(meshes) : Draw(m, 0)

SpecDraw == Init /\ [][NextDraw]_vars

\* The objects that were not dropped
LiveTextures == {t \in 1..Len(textures) : <<"Texture2d", t>> \notin dropped}
LiveFramebuffers == {f \in 1..Len(framebuffers) : <<"Framebuffer", f>> \notin dropped}
LiveMeshes == {m \in 1..Len(meshes) : <<"Mesh", m>> \notin dropped}
LivePrograms == {p \in 1..Len(programs) : program_strong[p] > 0}

\* The handle the host answers a create call with: one it never gave out,
\* or one of an object that was deleted
HostHandles(fresh, given, live) == {fresh} \cup (given \ live)

TextureHostHandles ==
    HostHandles(Len(textures) + 1, {textures[t].texture : t \in 1..Len(textures)},
                {textures[t].texture : t \in LiveTextures})
FramebufferHostHandles ==
    HostHandles(Len(framebuffers) + 1,
                {framebuffers[f].framebuffer : f \in 1..Len(framebuffers)},
                {framebuffers[f].framebuffer : f \in LiveFramebuffers})
ProgramHostHandles ==
    HostHandles(Len(programs) + 1, {programs[p].program : p \in 1..Len(programs)},
                {programs[p].program : p \in LivePrograms})

\* Creating, binding and dropping textures, framebuffers and programs, on
\* a host that may give a deleted object's handle to the next object; at
\* most MaxResources objects are created, and one mesh for each program
Created == Len(textures) + Len(framebuffers) + Len(programs)

NextIdentity ==
    \/ /\ Created < MaxResources
       /\ \E texture \in TextureHostHandles :
              Texture2dEmptyAs(texture, <<1, 1>>, "Nearest")
    \/ \E t \in LiveTextures : TextureBind(t, 0)
    \/ \E t \in LiveTextures : DropTexture2d(t)
    \/ /\ Created < MaxResources
       /\ \E framebuffer \in FramebufferHostHandles :
              NewWithRenderbufferAs(framebuffer, Len(renderbuffers) + 1, <<1, 1>>,
                                    "FRAMEBUFFER_COMPLETE")
    \/ \E s \in {0} \cup LiveFramebuffers : Bind(s)
    \/ \E f \in LiveFramebuffers : DropFramebuffer(f)
    \/ /\ Created < MaxResources
       /\ \E program \in ProgramHostHandles :
              GlProgramNewUpTo(MaxDrawPrograms, program, TRUE, TRUE, TRUE)
    \/ \E p \in 1..Len(programs) :
          /\ \A m \in 1..Len(meshes) : meshes[m].program # p
          /\ MeshNewUpTo(MaxDrawMeshes, p, "TRIANGLES", "Draw2D")
    \/ \E m \in LiveMeshes : BuildFrom(m, Builder(3, 3), "StaticDraw")
    \/ \E m \in LiveMeshes : Draw(m, 0)
    \/ \E m \in LiveMeshes : DropMesh(m)
    \/ \E p \in 1..Len(programs) : DropGlProgram(p)

SpecIdentity == Init /\ [][NextIdentity]_vars

\* The vertex layout engine on every schema of at most MaxAttributes
\* attributes with sizes in LayoutSizes
NextLayout ==
    \E attributes \in LayoutSchemas, instanced \in BOOLEAN : Layout(attributes, instanced)

SpecLayout == Init /\ [][NextLayout]_vars

\* The MeshBuilder: new, vert, verts, triangle/line/point, clear and extend
NextBuilder ==
    \/ \E type \in BuilderTypes : BuilderNew(type)
    \/ \E v \in VertexValues : BuilderVert(v)
    \/ BuilderVerts(1, BulkVerts)
    \/ \E indices \in IndexArgs(builder_type.primitive) : BuilderPrimitive(indices)
    \/ BuilderClear
    \/ \E other \in OtherBuilders(builder_type), overflow_checks \in BOOLEAN :
           BuilderExtend(other, overflow_checks)

SpecBuilder == Init /\ [][NextBuilder]_vars

\* GlContext::new, and then the screen surface it returned
NextContext ==
    \/ \E canvas_size \in Sizes, outcome \in GetContextOutcomes :
           GlContextNew(canvas_size, outcome)
    \/ /\ screen # None
       /\ \/ Bind(0)
          \/ BindRead(0)
          \/ \E buffers \in ClearBufferLists : Clear(0, buffers)
          \/ \E new_size \in Sizes : SetSize(new_size)

SpecContext == InitContext /\ [][NextContext]_vars

\* Ownership of the native handles: the constructors and the drops
NextLifetime ==
    \/ Texture2dEmpty(<<1, 1>>, "Nearest")
    \/ \E status \in {"FRAMEBUFFER_COMPLETE", "FRAMEBUFFER_UNSUPPORTED"} :
           NewWithTexture(<<2, 1>>, "Nearest", status)
    \/ \E status \in {"FRAMEBUFFER_COMPLETE", "FRAMEBUFFER_UNSUPPORTED"} :
           NewWithRenderbuffer(<<2, 1>>, status)
    \/ GlProgramNew(TRUE, TRUE, TRUE)
    \/ \E p \in 1..Len(programs) : MeshNew(p, "TRIANGLES", "Draw2D")
    \/ \E m \in 1..Len(meshes) : DropMesh(m)
    \/ \E t \in 1..Len(textures) : DropTexture2d(t)
    \/ \E f \in 1..Len(framebuffers) : DropFramebuffer(f)

SpecLifetime == Init /\ [][NextLifetime]_vars

\* The sharing of a program: GlProgram::new, clone, Mesh::new and the drops
NextProgramLifetime ==
    \/ \E vert_ok, frag_ok, link_ok \in BOOLEAN : GlProgramNew(vert_ok, frag_ok, link_ok)
    \/ \E p \in 1..Len(programs), kind \in MeshKinds : MeshNew(p, kind[1], kind[2])
    \/ \E p \in 1..Len(programs) : CloneGlProgram(p)
    \/ \E p \in 1..Len(programs) : DropGlProgram(p)
    \/ \E m \in 1..Len(meshes) : DropMesh(m)

SpecProgramLifetime == Init /\ [][NextProgramLifetime]_vars

\* ------------------------------------------------------------------ claims
\* The calls of the last operation that satisfy a test
CallsNamed(name) == SelectSeq(calls, LAMBDA c : c.name = name)
DrawBindCalls ==
    SelectSeq(calls, LAMBDA c : c.name = "bind_framebuffer" /\ c.target = "DRAW_FRAMEBUFFER")

\* The surface a cached framebuffer id names is the one bound on the device
CachedSurfaceIsBound(cached, bound) ==
    cached # None =>
        \E s \in Surfaces : SurfaceId(s) = cached[1] /\ bound = SurfaceHandle(s)

\* C1: whenever bound_framebuffer / bound_read_framebuffer is Some(id), the
\* device's draw / read framebuffer binding is the framebuffer of that id
\* (the default framebuffer for the screen's id).
C1_CacheMirrorsFramebufferBindings ==
    ~panicked =>
        /\ CachedSurfaceIsBound(cache.bound_framebuffer, gl.draw_framebuffer)
        /\ CachedSurfaceIsBound(cache.bound_read_framebuffer, gl.read_framebuffer)

\* C2: whenever bound_textures[u] is Some((TEXTURE_2D, id)), the device's
\* texture unit u has the texture of that id bound.
C2_CacheMirrorsTextureBindings ==
    ~panicked =>
        \A u \in TextureUnits :
            cache.bound_textures[u] # None =>
                \E t \in 1..Len(textures) :
                    /\ cache.bound_textures[u] = Some(<<"TEXTURE_2D", textures[t].id>>)
                    /\ gl.texture_binding[u] = textures[t].texture

\* C3: every operation that calls Surface::bind(s) issues one draw-target
\* bind call and one viewport update when s differs from the surface of the
\* previous Surface::bind call (or there was none), and neither when s is
\* the same surface; the screen is no exception.
C3_BindIssuedIffTargetDiffers ==
    (last.op \in {"bind", "blit_to"} \/ (last.op = "clear" /\ ~panicked)) =>
        /\ Len(DrawBindCalls) = (IF bind_differs THEN 1 ELSE 0)
        /\ Len(CallsNamed("viewport")) = (IF bind_differs THEN 1 ELSE 0)
        /\ bind_differs =>
               /\ DrawBindCalls[1].args = <<SurfaceHandle(bind_last[1])>>
               /\ CallsNamed("viewport")[1].args =
                      <<0, 0, SurfaceSize(bind_last[1])[1], SurfaceSize(bind_last[1])[2]>>

\* C3 witness: a bind of the screen right after a bind of the screen, elided
C3_Witness ==
    /\ last.op = "bind"
    /\ bind_last = Some(0)
    /\ ~bind_differs
    /\ calls = <<>>
    /\ cache.bound_framebuffer = Some(screen.id)

\* The viewport of a surface of the given size
ViewportOfSize(size) == <<0, 0, size[1], size[2]>>

\* C4: set_size(S) makes size() return S; whenever the cache names surface
\* s as the draw target the device viewport is (0,0)-(s.size); set_size on
\* the bound screen issues the viewport call itself, set_size on a screen
\* that is not the bound draw target issues no call; set_size never changes
\* the cache.
C4_StateInv ==
    /\ \A s \in Surfaces :
           cache.bound_framebuffer = Some(SurfaceId(s)) =>
               gl.viewport = ViewportOfSize(SurfaceSize(s))
    /\ last.op = "set_size" =>
           /\ SurfaceSize(0) = last.recv
           /\ IF cache.bound_framebuffer = Some(screen.id)
              THEN calls = <<Call("viewport", "", ViewportOfSize(last.recv))>>
              ELSE calls = <<>>

C4_SetSizeKeepsViewportInSync ==
    /\ []C4_StateInv
    /\ [][last'.op = "set_size" => cache' = cache]_vars

\* C4 witness: the bound screen was resized and the viewport followed
C4_Witness ==
    /\ last.op = "set_size"
    /\ cache.bound_framebuffer = Some(screen.id)
    /\ last.recv = <<2, 1>>
    /\ gl.viewport = <<0, 0, 2, 1>>
    /\ screen.size = <<2, 1>>

\* The most recent build_from of mesh m had a builder with at least one index
BuiltWithIndices(m) == built[m] # None /\ Len(built[m][1].indices) >= 1

\* The last operation was a draw on a mesh with zero indices, or an
\* instanced draw on such a mesh or with an empty instance slice
NoOpDraw ==
    \/ last.op = "draw" /\ ~BuiltWithIndices(last.recv)
    \/ last.op = "draw_instanced" /\ (~BuiltWithIndices(last.recv) \/ last.arg[2] = 0)

\* C5: draw on a mesh with zero indices, and draw_instanced on such a mesh
\* or with an empty instance slice, issue no device call and leave the
\* cache (and the device) unchanged.
C5_EmptyDrawIsNoOp ==
    /\ [](NoOpDraw => calls = <<>>)
    /\ [][NoOpDraw' => cache' = cache /\ gl' = gl]_vars

\* C5 witness: a draw on a mesh that was never built, and nothing issued
C5_Witness ==
    /\ last.op = "draw"
    /\ built[last.recv] = None
    /\ calls = <<>>

\* C6: a new mesh is Empty; a mesh is Ready exactly when the builder of its
\* most recent build_from had at least one index, and only then does draw
\* issue a draw call.
C6_MeshReadyIffLastBuildHadIndices ==
    /\ \A m \in 1..Len(meshes) :
           /\ (meshes[m].num_indices # 0) <=> BuiltWithIndices(m)
           /\ built[m] # None => meshes[m].num_indices = Len(built[m][1].indices)
    /\ last.op = "Mesh::new" => meshes[Len(meshes)].num_indices = 0
    /\ last.op = "draw" =>
           Len(CallsNamed("draw_elements")) = (IF BuiltWithIndices(last.recv) THEN 1 ELSE 0)

\* C6 witness: a mesh with uploaded vertex data was rebuilt from a builder
\* without indices and is Empty again
C6_Witness ==
    /\ last.op = "build_from"
    /\ Len(last.arg.indices) = 0
    /\ gl.buffer_data[meshes[last.recv].vbo] # None
    /\ meshes[last.recv].num_indices = 0

\* C7: draw on a Ready mesh issues exactly one draw call, as the last call
\* of the operation (after the vertex-array bind, the program bind, the
\* uniform update, the surface bind and the draw mode), with the mesh's
\* primitive kind, UNSIGNED_SHORT and the index count of the last builder.
C7_DrawIssuesOneDrawCallLast ==
    (last.op = "draw" /\ BuiltWithIndices(last.recv)) =>
        LET m == meshes[last.recv]
            n == Len(calls)
        IN  /\ n >= 4
            /\ Len(CallsNamed("draw_elements")) = 1
            /\ Len(CallsNamed("draw_elements_instanced")) = 0
            /\ calls[n].name = "draw_elements"
            /\ calls[n].param = <<m.primitive, "UNSIGNED_SHORT">>
            /\ calls[n].args = <<Len(built[last.recv][1].indices), 0>>
            /\ calls[n].on = Some(gl.draw_framebuffer)
            /\ calls[1] = Call("bind_vertex_array", "", <<m.vao>>)
            /\ Len(CallsNamed("uniforms.update")) = 1
            /\ gl.vertex_array = m.vao
            /\ cache.bound_program = Some(programs[m.program].id)
            /\ gl.current_program = programs[m.program].program
            /\ cache.bound_framebuffer = Some(SurfaceId(last.arg))
            /\ gl.draw_framebuffer = SurfaceHandle(last.arg)
            /\ cache.draw_mode = Some(m.draw_mode)
            /\ gl.cull_face = (m.draw_mode = "Draw3D")
            /\ gl.depth_test = (m.draw_mode = "Draw3D")

\* C7 witness: a draw of a mesh built from three vertices and one triangle
C7_Witness ==
    /\ last.op = "draw"
    /\ BuiltWithIndices(last.recv)
    /\ meshes[last.recv].primitive = "TRIANGLES"
    /\ calls[Len(calls)].args = <<3, 0>>

\* C8: the per-instance attributes read a buffer other than the mesh's
\* vertex buffer, and the vertex buffer of a mesh last built with indices
\* holds the vertex data of that build_from, whatever draw_instanced calls
\* followed.
C8_InstancedDrawKeepsVertexBuffer ==
    ~panicked =>
        \A m \in 1..Len(meshes) :
            BuiltWithIndices(m) =>
                /\ gl.buffer_data[meshes[m].vbo] = Some(built[m][1].vertex_data)
                /\ \A a \in gl.vertex_attribs[meshes[m].vao] :
                       a.divisor = 1 => a.buffer # meshes[m].vbo

\* The buffer uploads of the last operation to ARRAY_BUFFER
ArrayBufferUploads ==
    SelectSeq(calls, LAMBDA c : c.name = "buffer_data" /\ c.target = "ARRAY_BUFFER")

\* The position of the first call of a name in the last operation
FirstIndexOf(name) ==
    CHOOSE i \in 1..Len(calls) :
        calls[i].name = name /\ \A j \in 1..(i - 1) : calls[j].name # name

RECURSIVE SeqSum(_)
SeqSum(q) == IF q = <<>> THEN 0 ELSE Head(q) + SeqSum(Tail(q))
LegalSchema(q) == \A i \in 1..Len(q) : q[i] \in {1, 2, 3, 4, 16}

\* C10: for a schema with sizes in {1,2,3,4,16}, every slot gets the byte
\* stride 4 x (sum of the sizes) and the number of slots is
\* (number of sizes <= 4) + 4 x (number of sizes = 16).
C10_StrideAndSlotCount ==
    (last.op = "setup_vertex_attribs" /\ LegalSchema(last.recv)) =>
        LET slots == CallsNamed("vertex_attrib_pointer")
            small == Cardinality({i \in 1..Len(last.recv) : last.recv[i] <= 4})
            matrices == Cardinality({i \in 1..Len(last.recv) : last.recv[i] = 16})
        IN  /\ ~panicked
            /\ Len(slots) = small + 4 * matrices
            /\ Len(CallsNamed("enable_vertex_attrib_array")) = small + 4 * matrices
            /\ \A i \in 1..Len(slots) : slots[i].args[3] = 4 * SeqSum(last.recv)

\* C10 witness: the schema (2, 16, 1) gave six slots of stride 76
C10_Witness ==
    /\ last.op = "setup_vertex_attribs"
    /\ last.recv = <<2, 16, 1>>
    /\ Len(CallsNamed("vertex_attrib_pointer")) = 6
    /\ CallsNamed("vertex_attrib_pointer")[6].args[3] = 76

\* The descriptors setup_vertex_attribs processes before it returns or
\* panics: all of them, or those before the first size it rejects
Processed(q) ==
    IF \E j \in 1..Len(q) : q[j] > 4 /\ q[j] # 16
    THEN (CHOOSE j \in 1..Len(q) :
              /\ q[j] > 4 /\ q[j] # 16
              /\ \A k \in 1..(j - 1) : ~(q[k] > 4 /\ q[k] # 16)) - 1
    ELSE Len(q)

\* The slots (location, size, float offset) descriptor i of schema q is to
\* emit, its location being loc
ExpectedSlots(q, loc, i) ==
    LET off == SeqSum(SubSeq(q, 1, i - 1))
    IN  IF q[i] = 16
        THEN <<<<loc, 4, off>>, <<loc + 1, 4, off + 4>>,
               <<loc + 2, 4, off + 8>>, <<loc + 3, 4, off + 12>>>>
        ELSE <<<<loc, q[i], off>>>>

RECURSIVE ExpectedLayout(_, _, _)
ExpectedLayout(q, locs, n) ==
    IF n = 0 THEN <<>>
    ELSE ExpectedLayout(q, locs, n - 1) \o ExpectedSlots(q, locs[n], n)

\* The slots the last operation emitted, as (location, size, byte offset)
EmittedSlots ==
    [i \in 1..Len(CallsNamed("vertex_attrib_pointer")) |->
        LET c == CallsNamed("vertex_attrib_pointer")[i]
        IN  <<c.args[1], c.args[2], c.args[4]>>]

\* C11: the slots setup_vertex_attribs emits are, descriptor by descriptor,
\* one slot (loc, size, off) for a size <= 4 and four slots of size 4 at
\* float offsets off, off+4, off+8, off+12 on locations loc..loc+3 for a
\* size 16, off being the sum of the sizes of the descriptors before it.
C11_SlotOffsetsArePrefixSums ==
    last.op = "setup_vertex_attribs" =>
        LET q == last.recv
            expected == ExpectedLayout(q, PackedLocations(q, 0), Processed(q))
        IN  /\ Len(EmittedSlots) = Len(expected)
            /\ \A i \in 1..Len(expected) :
                   EmittedSlots[i] = <<expected[i][1], expected[i][2], 4 * expected[i][3]>>

\* C11 witness: the schema (1, 16, 2) gave the float offsets 0, 1, 5, 9, 13, 17
C11_Witness ==
    /\ last.op = "setup_vertex_attribs"
    /\ last.recv = <<1, 16, 2>>
    /\ EmittedSlots = <<<<0, 1, 0>>, <<1, 4, 4>>, <<2, 4, 20>>, <<3, 4, 36>>,
                        <<4, 4, 52>>, <<5, 2, 68>>>>

\* C12: a schema with a size outside {1,2,3,4,16} fails layout construction,
\* and no slot is emitted with a size outside 1..4.
C12_IllegalSizeFailsLayout ==
    last.op = "setup_vertex_attribs" =>
        /\ ~LegalSchema(last.recv) => panicked
        /\ \A i \in 1..Len(EmittedSlots) : EmittedSlots[i][2] \in 1..4

\* ---------------------------------------------------------------- C13
\* C13: after every MeshBuilder operation, len(vertex_data) equals
\* next_index times V::stride(), whatever number of floats the vertex's
\* add_to_mesh emits.
C13_VertexDataLenIsNextIndexTimesStride ==
    mesh_builder # None =>
        VertexDataLen(mesh_builder[1], builder_type)
            = mesh_builder[1].next_index * VertexStride(builder_type.attributes)


\* ---------------------------------------------------------------- C14
\* C14: on one MeshBuilder, a call to vert made after c vert calls have
\* returned since new or the last clear (with no extend in between)
\* succeeds and returns c when c < 65535, and otherwise fails and leaves
\* vertex_data, indices and next_index as they were.
C14_VertSucceedsUpTo65535 ==
    [][last'.op = "MeshBuilder::vert" /\ verts_since_clear # None =>
          IF verts_since_clear[1] < MeshIndexMax
          THEN /\ ~panicked'
               /\ last'.arg = Some(verts_since_clear[1])
          ELSE /\ panicked'
               /\ mesh_builder' = mesh_builder]_vars

\* The 65536th vert since new has just failed
C14_Witness ==
    /\ last.op = "MeshBuilder::vert"
    /\ panicked
    /\ verts_since_clear = Some(MeshIndexMax)
    /\ mesh_builder[1].next_index = MeshIndexMax
    /\ VertexCount(mesh_builder[1].vertex_data) = MeshIndexMax


\* ---------------------------------------------------------------- C15
\* other's indices, each shifted by start_index without wrapping
ShiftedExactly(indices, start_index) ==
    [i \in 1..Len(indices) |-> indices[i] + start_index]

\* C15: an extend whose combined vertex count exceeds 65535 fails; after an
\* extend that returns, next_index is the exact sum of the two builders'
\* vertex counts and the indices appended are other's indices plus the
\* receiver's previous next_index, none of them wrapped modulo 2^16.
C15_ExtendNeverWraps ==
    [][last'.op = "MeshBuilder::extend" =>
          LET b == mesh_builder[1]
              other == last'.recv
              sum == b.next_index + other.next_index
          IN  /\ sum > MeshIndexMax => panicked'
              /\ ~panicked' =>
                    /\ mesh_builder'[1].next_index = sum
                    /\ mesh_builder'[1].indices
                           = b.indices \o ShiftedExactly(other.indices, b.next_index)]_vars


\* ---------------------------------------------------------------- C16
\* vertex_data without its last vertex
DropLastVertex(data) ==
    IF data[Len(data)].count = 1 THEN SubSeq(data, 1, Len(data) - 1)
    ELSE [data EXCEPT ![Len(data)].count = @ - 1]

\* The vertex type of the scenario: position x 2, uv x 2 and one scalar
StrideFiveType ==
    /\ builder_type.attributes = VertexAttributes
    /\ builder_type.emits = VertexStride(VertexAttributes)

\* C16: a vert that returns gives the k-th vertex since new/clear the index
\* k - 1 and appends that vertex's floats at the end of vertex_data, leaving
\* the indices alone; triangle/line/point append exactly the given indices,
\* in argument order, and leave the vertices alone; 3 vertices of stride 5
\* followed by the triangle (0, 1, 2) give 15 floats and the indices [0, 1, 2].
C16_VertAndPrimitivesAppend ==
    [][/\ last'.op = "MeshBuilder::vert" /\ ~panicked' =>
             /\ verts_since_clear # None => last'.arg = Some(verts_since_clear[1])
             /\ mesh_builder'[1].vertex_data # <<>>
             /\ DropLastVertex(mesh_builder'[1].vertex_data) = mesh_builder[1].vertex_data
             /\ mesh_builder'[1].vertex_data[Len(mesh_builder'[1].vertex_data)].vert
                    = last'.recv
             /\ VertexDataLen(mesh_builder'[1], builder_type)
                    = VertexDataLen(mesh_builder[1], builder_type)
                        + Len(VertexFloats(last'.recv, builder_type))
             /\ mesh_builder'[1].indices = mesh_builder[1].indices
       /\ last'.op = "MeshBuilder::primitive" =>
             /\ mesh_builder'[1].indices = mesh_builder[1].indices \o last'.recv
             /\ mesh_builder'[1].vertex_data = mesh_builder[1].vertex_data
             /\ mesh_builder'[1].next_index = mesh_builder[1].next_index
       /\ (/\ last'.op = "MeshBuilder::primitive"
           /\ last'.recv = <<0, 1, 2>>
           /\ StrideFiveType
           /\ verts_since_clear = Some(3)
           /\ mesh_builder[1].indices = <<>>) =>
             /\ Len(VertexDataFloats(mesh_builder'[1].vertex_data, builder_type)) = 15
             /\ mesh_builder'[1].indices = <<0, 1, 2>>]_vars

\* The scenario: three vertices of stride 5, then the triangle (0, 1, 2)
C16_Witness ==
    /\ last.op = "MeshBuilder::primitive"
    /\ last.recv = <<0, 1, 2>>
    /\ StrideFiveType
    /\ verts_since_clear = Some(3)
    /\ mesh_builder[1].next_index = 3
    /\ Len(VertexDataFloats(mesh_builder[1].vertex_data, builder_type)) = 15
    /\ mesh_builder[1].indices = <<0, 1, 2>>


\* ---------------------------------------------------------------- C17
\* The builder obtained from b by calling vert on each vertex of data, in
\* order, from the i-th run on
RECURSIVE AppendWithVert(_, _, _)
AppendWithVert(outcome, data, i) ==
    IF i > Len(data) \/ outcome.panic THEN outcome
    ELSE AppendWithVert(MeshBuilderVerts(outcome.b, data[i].vert, data[i].count),
                        data, i + 1)

\* extend(other) done by hand: other's vertices appended with vert, then
\* other's primitives added with each index shifted by the receiver's
\* previous next_index
ExtendByHand(b, other) ==
    LET appended == AppendWithVert(Outcome(b, FALSE, None), other.vertex_data, 1)
    IN  [appended EXCEPT
            !.b = MeshBuilderPrimitive(@, ShiftedExactly(other.indices, b.next_index))]

\* C17: an extend that returns leaves the builder that appending other's
\* vertices with vert and adding other's primitives with shifted indices
\* gives, and the receiver's earlier indices are still in front.
C17_ExtendEqualsAppendingByHand ==
    [][last'.op = "MeshBuilder::extend" /\ ~panicked' =>
          LET by_hand == ExtendByHand(mesh_builder[1], last'.recv)
          IN  /\ ~by_hand.panic
              /\ mesh_builder'[1] = by_hand.b
              /\ SubSeq(mesh_builder'[1].indices, 1, Len(mesh_builder[1].indices))
                     = mesh_builder[1].indices]_vars


\* ---------------------------------------------------------------- C18
\* Framebuffer::new has just run inside one of the two constructors
FramebufferNewRan(op) ==
    op \in {"Framebuffer::new_with_texture", "Framebuffer::new_with_renderbuffer"}

\* The reason each incomplete status is reported with
ReasonOf(status) ==
    CASE status = "FRAMEBUFFER_INCOMPLETE_ATTACHMENT" -> "incomplete attachment"
      [] status = "FRAMEBUFFER_INCOMPLETE_MISSING_ATTACHMENT" ->
             "incomplete missing attachment"
      [] status = "FRAMEBUFFER_UNSUPPORTED" -> "unsupported"
      [] status \in FramebufferStatuses \ {"FRAMEBUFFER_COMPLETE"} -> "unknown reason"

\* The size of the attachment a Framebuffer value owns
AttachmentSize(f, all_textures, all_renderbuffers) ==
    IF f.attachment[1] = "TEXTURE_2D" THEN all_textures[f.attachment[2]].size
    ELSE all_renderbuffers[f.attachment[2]].size

\* C18: Framebuffer::new queries completeness after attaching; on a status
\* other than complete it reports the classified reason and panics, and no
\* Framebuffer value is added; on a complete status it returns a framebuffer
\* whose size and viewport extent are its attachment's size.
C18_IncompleteFramebufferFailsConstruction ==
    [][FramebufferNewRan(last'.op) =>
          LET status == last'.arg
              log == SelectSeq(calls', LAMBDA c : c.name = "error!")
              attach == {i \in 1..Len(calls') : calls'[i].name \in
                            {"framebuffer_texture_2d", "framebuffer_renderbuffer"}}
              query == {i \in 1..Len(calls') : calls'[i].name = "check_framebuffer_status"}
          IN  /\ Cardinality(attach) = 1 /\ Cardinality(query) = 1
              /\ \A i \in attach, j \in query : i < j
              /\ IF status # "FRAMEBUFFER_COMPLETE"
                 THEN /\ panicked'
                      /\ framebuffers' = framebuffers
                      /\ Len(log) = 1
                      /\ log[1].param[2] = ReasonOf(status)
                 ELSE /\ ~panicked'
                      /\ log = <<>>
                      /\ Len(framebuffers') = Len(framebuffers) + 1
                      /\ SubSeq(framebuffers', 1, Len(framebuffers)) = framebuffers
                      /\ LET f == framebuffers'[Len(framebuffers')]
                             size == AttachmentSize(f, textures', renderbuffers')
                         IN  /\ size = last'.recv
                             /\ f.attachment_size = size
                             /\ f.viewport = [start |-> <<0, 0>>, end |-> size]]_vars

\* An unsupported framebuffer has just been refused
C18_Witness ==
    /\ last.op = "Framebuffer::new_with_renderbuffer"
    /\ last.arg = "FRAMEBUFFER_UNSUPPORTED"
    /\ panicked
    /\ framebuffers = <<>>
    /\ \E i \in 1..Len(calls) :
          /\ calls[i].name = "error!"
          /\ calls[i].param[2] = "unsupported"


\* ---------------------------------------------------------------- C19
\* The number of delete calls the device received for a handle
Released(name, handle) == CopiesIn(<<name, handle>>, deleted)

\* The meshes that exist and reference program p
LiveMeshesOf(p) ==
    {m \in 1..Len(meshes) : meshes[m].program = p /\ <<"Mesh", m>> \notin dropped}

\* The holders of program p: the GlProgram values held by the caller and the
\* meshes that reference it
Holders(p) == program_handles[p] + Cardinality(LiveMeshesOf(p))

\* The native program and the two shaders of p were each deleted n times
ProgramReleased(p, n) ==
    /\ Released("delete_program", programs[p].program) = n
    /\ Released("delete_shader", programs[p].vert_shader) = n
    /\ Released("delete_shader", programs[p].frag_shader) = n

\* The program and its shaders are deleted once when no holder is left, and
\* not at all while there is one
ProgramsReleasedWithLastHolder ==
    \A p \in 1..Len(programs) :
        ProgramReleased(p, IF Holders(p) = 0 THEN 1 ELSE 0)

\* Cloning and Mesh::new allocate no program; the program is deleted in the
\* very step that drops its last holder
SharingStep ==
    /\ last'.op \in {"GlProgram::clone", "Mesh::new"} =>
          /\ programs' = programs
          /\ \A i \in 1..Len(calls') :
                calls'[i].name \notin {"create_program", "create_shader"}
    /\ \A p \in 1..Len(programs) :
          Holders(p) > 0 /\ Holders(p)' = 0 =>
              \E i \in 1..Len(calls') :
                  /\ calls'[i].name = "delete_program"
                  /\ calls'[i].args = <<programs[p].program>>

\* C19: a GlProgram is shared by reference count: clone and Mesh::new
\* allocate no native program, and the native program and its two shaders
\* are deleted exactly once, when the last holder (mesh or program handle)
\* is dropped, never while a mesh referencing the program exists.
C19_ProgramDeletedOnceWithLastHolder ==
    /\ []ProgramsReleasedWithLastHolder
    /\ [][SharingStep]_vars

\* The caller dropped every GlProgram value first; the program lived on in
\* the mesh and has just been deleted with it
C19_Witness ==
    /\ last.op = "Mesh::drop"
    /\ Len(programs) = 1
    /\ program_handles[1] = 0
    /\ meshes[last.recv].program = 1
    /\ ProgramReleased(1, 1)
    /\ \E i \in 1..Len(calls) : calls[i].name = "delete_program"

\* ---------------------------------------------------------------- C20
\* The wrapper that owns the texture / the renderbuffer was dropped
TextureGone(t) ==
    IF textures[t].owner = 0 THEN <<"Texture2d", t>> \in dropped
    ELSE <<"Framebuffer", textures[t].owner>> \in dropped
RenderbufferGone(r) == <<"Framebuffer", renderbuffers[r].owner>> \in dropped

\* 1 for a wrapper that was dropped, 0 for one that exists
Once(gone) == IF gone THEN 1 ELSE 0

\* Every handle was released once if its owner was dropped and not at all
\* otherwise
HandlesReleasedWithOwner ==
    /\ \A t \in 1..Len(textures) :
          Released("delete_texture", textures[t].texture) = Once(TextureGone(t))
    /\ \A r \in 1..Len(renderbuffers) :
          Released("delete_renderbuffer", renderbuffers[r].renderbuffer)
              = Once(RenderbufferGone(r))
    /\ \A f \in 1..Len(framebuffers) :
          Released("delete_framebuffer", framebuffers[f].framebuffer)
              = Once(<<"Framebuffer", f>> \in dropped)
    /\ \A m \in 1..Len(meshes) :
          /\ Released("delete_vertex_array", meshes[m].vao) = Once(<<"Mesh", m>> \in dropped)
          /\ Released("delete_buffer", meshes[m].vbo) = Once(<<"Mesh", m>> \in dropped)
          /\ Released("delete_buffer", meshes[m].ibo) = Once(<<"Mesh", m>> \in dropped)

\* The delete call that releases the attachment of a framebuffer
AttachmentRelease(f) ==
    IF f.attachment[1] = "TEXTURE_2D"
    THEN <<"delete_texture", textures[f.attachment[2]].texture>>
    ELSE <<"delete_renderbuffer", renderbuffers[f.attachment[2]].renderbuffer>>

\* Dropping a framebuffer releases its handle and its attachment's, nothing else
FramebufferDropStep ==
    last'.op = "Framebuffer::drop" =>
        LET f == framebuffers[last'.recv]
        IN  deleted' = deleted (+) SetToBag({<<"delete_framebuffer", f.framebuffer>>,
                                             AttachmentRelease(f)})

\* C20: every native handle acquired by a wrapper (texture, renderbuffer,
\* framebuffer, a mesh's vertex array and two buffers) is released exactly
\* once, when its owner is dropped and never before; dropping a Framebuffer
\* releases its own handle and its attachment's, each once, and no other.
C20_HandlesReleasedOnceOnDrop ==
    /\ []HandlesReleasedWithOwner
    /\ [][FramebufferDropStep]_vars

\* A framebuffer has just been dropped with its texture, while a texture of
\* the caller is still there
C20_Witness ==
    /\ last.op = "Framebuffer::drop"
    /\ framebuffers[last.recv].attachment[1] = "TEXTURE_2D"
    /\ Released("delete_framebuffer", framebuffers[last.recv].framebuffer) = 1
    /\ Released("delete_texture",
                textures[framebuffers[last.recv].attachment[2]].texture) = 1
    /\ \E t \in 1..Len(textures) :
          /\ textures[t].owner = 0
          /\ ~TextureGone(t)
          /\ Released("delete_texture", textures[t].texture) = 0


\* ---------------------------------------------------------------- C21
\* The mask that covers the buffer kinds of a list of ClearBuffers
UnionMask(buffers) ==
    (IF \E i \in 1..Len(buffers) : buffers[i][1] = "Color" THEN COLOR_BUFFER_BIT ELSE 0)
    + (IF \E i \in 1..Len(buffers) : buffers[i][1] = "Depth" THEN DEPTH_BUFFER_BIT ELSE 0)

\* The colours of the Color entries of a list of ClearBuffers, in order
RequestedColors(buffers) ==
    LET colored == SelectSeq(buffers, LAMBDA b : b[1] = "Color")
    IN  [i \in 1..Len(colored) |-> colored[i][2]]

\* C21: a clear with a non-empty buffer list first makes the surface the
\* draw target (the bind elided when the cache names the surface), then sets
\* a clear colour for each Color entry and for no Depth entry, and last
\* issues exactly one clear call, on that surface, whose mask is the union
\* of the requested buffer kinds.
C21_ClearBindsThenClearsOnce ==
    (last.op = "clear" /\ last.arg # <<>>) =>
        /\ ~panicked
        /\ cache.bound_framebuffer = Some(SurfaceId(last.recv))
        /\ Len(CallsNamed("clear")) = 1
        /\ calls[Len(calls)].name = "clear"
        /\ calls[Len(calls)].args = <<UnionMask(last.arg)>>
        /\ calls[Len(calls)].on = Some(SurfaceHandle(last.recv))
        /\ LET colors == CallsNamed("clear_color")
           IN  /\ Len(colors) = Len(RequestedColors(last.arg))
               /\ \A i \in 1..Len(colors) : colors[i].args = RequestedColors(last.arg)[i]
        /\ \A i, j \in 1..Len(calls) :
              (calls[i].name \in {"bind_framebuffer", "viewport"}
                  /\ calls[j].name \in {"clear_color", "clear"}) => i < j


\* ---------------------------------------------------------------- C22
\* C22: a clear with an empty buffer list fails its assertion before
\* anything else: it issues no device call and leaves the cache (and the
\* device) as they were.
C22_EmptyClearFailsFirst ==
    [][(last'.op = "clear" /\ last'.arg = <<>>) =>
          /\ panicked'
          /\ calls' = <<>>
          /\ cache' = cache
          /\ gl' = gl]_vars

\* An empty clear has just failed on a surface that a bind would have had
\* to make the draw target
C22_Witness ==
    /\ last.op = "clear"
    /\ last.arg = <<>>
    /\ panicked
    /\ calls = <<>>
    /\ cache.bound_framebuffer # Some(SurfaceId(last.recv))


\* ---------------------------------------------------------------- C23
\* C23: when a mesh is drawn twice in a row, its vertex array being the
\* bound one after the first draw, the second draw issues no device
\* vertex-array bind call.
C23_SecondDrawElidesVertexArrayBind ==
    [][(/\ last.op = "draw"
        /\ last'.op = "draw"
        /\ last'.recv = last.recv
        /\ gl.vertex_array = meshes[last.recv].vao) =>
          \A i \in 1..Len(calls') : calls'[i].name # "bind_vertex_array"]_vars


\* ---------------------------------------------------------------- C24
\* C24: every draw and draw_instanced that is not a no-op calls
\* uniforms.update exactly once, also when the program bind of that call was
\* elided, after the program bind if there is one, and at the moment of the
\* update the device's current program is the mesh's program.
C24_UniformsPushedOnEveryDraw ==
    (last.op \in {"draw", "draw_instanced"} /\ ~NoOpDraw) =>
        LET updates == CallsNamed("uniforms.update")
            program == programs[meshes[last.recv].program].program
        IN  /\ Len(updates) = 1
            /\ updates[1].on = Some(program)
            /\ \A i, j \in 1..Len(calls) :
                  (calls[i].name = "use_program" /\ calls[j].name = "uniforms.update")
                      => i < j

\* A draw whose program bind was elided and that still pushed the uniforms
C24_Witness ==
    /\ last.op = "draw"
    /\ ~NoOpDraw
    /\ CallsNamed("use_program") = <<>>
    /\ Len(CallsNamed("uniforms.update")) = 1
    /\ gl.current_program = programs[meshes[last.recv].program].program


\* ---------------------------------------------------------------- C26
\* C26: GlContext::new returns an error value, without aborting, whenever
\* the WebGL 2 context cannot be created (the host's get-context call
\* reports an error or returns no context), and returns the context and the
\* screen surface only when the creation succeeded.
C26_ContextFailureIsReturned ==
    [][last'.op = "GlContext::new" /\ last.op = "main" =>
          LET outcome == last'.arg[1]
              result == last'.arg[2]
          IN  IF outcome = "Ok(Some)"
              THEN result = "Ok" /\ ~panicked' /\ screen' # None /\ cache' # None
              ELSE result = "Err" /\ ~panicked' /\ screen' = None /\ cache' = None]_vars


\* ---------------------------------------------------------------- C30
\* C30: Surface::bind_read issues a device read-framebuffer bind iff
\* bound_read_framebuffer differs from the surface's id, sets that slot to
\* the id, never issues a viewport call and never changes bound_framebuffer
\* (nor the device's draw binding and viewport); Surface::bind never changes
\* bound_read_framebuffer nor the device's read-framebuffer binding.
C30_BindReadAndBindKeepToTheirSlot ==
    [][/\ last'.op = "bind_read" =>
             LET s == last'.recv IN
             /\ calls' = IF cache.bound_read_framebuffer # Some(SurfaceId(s))
                         THEN <<Call("bind_framebuffer", "READ_FRAMEBUFFER",
                                     <<SurfaceHandle(s)>>)>>
                         ELSE <<>>
             /\ cache'.bound_read_framebuffer = Some(SurfaceId(s))
             /\ cache'.bound_framebuffer = cache.bound_framebuffer
             /\ gl'.draw_framebuffer = gl.draw_framebuffer
             /\ gl'.viewport = gl.viewport
       /\ last'.op = "bind" =>
             /\ cache'.bound_read_framebuffer = cache.bound_read_framebuffer
             /\ gl'.read_framebuffer = gl.read_framebuffer
             /\ \A i \in 1..Len(calls') :
                    calls'[i].target \notin {"READ_FRAMEBUFFER", "FRAMEBUFFER"}]_vars

\* A bind_read of a framebuffer reached the device while the screen stayed
\* the cached and the device's draw target.
C30_Witness ==
    /\ last.op = "bind_read"
    /\ last.recv >= 1
    /\ ~panicked
    /\ calls = <<Call("bind_framebuffer", "READ_FRAMEBUFFER", <<SurfaceHandle(last.recv)>>)>>
    /\ cache.bound_framebuffer = Some(screen.id)
    /\ cache.bound_read_framebuffer = Some(SurfaceId(last.recv))
    /\ gl.draw_framebuffer = 0
    /\ gl.read_framebuffer = SurfaceHandle(last.recv)


\* ---------------------------------------------------------------- C29
\* The enable / disable calls of the last operation
FlagCalls(log) == SelectSeq(log, LAMBDA c : c.name \in {"enable", "disable"})

\* C29: the device's cull-face and depth-test flags are touched only by a
\* draw whose mesh's mode differs from the cached draw_mode, and after every
\* step a cached Draw2D means both flags are disabled on the device and a
\* cached Draw3D means both are enabled.
C29_FlagsFollowDrawMode ==
    [][/\ (FlagCalls(calls') # <<>> \/ gl'.cull_face # gl.cull_face
              \/ gl'.depth_test # gl.depth_test \/ cache'.draw_mode # cache.draw_mode) =>
             /\ last'.op \in {"draw", "draw_instanced"}
             /\ cache.draw_mode # Some(meshes[last'.recv].draw_mode)
             /\ cache'.draw_mode = Some(meshes[last'.recv].draw_mode)
       /\ cache'.draw_mode = Some("Draw2D") => ~gl'.cull_face /\ ~gl'.depth_test
       /\ cache'.draw_mode = Some("Draw3D") => gl'.cull_face /\ gl'.depth_test]_vars

\* A Draw3D mesh was drawn next to a Draw2D one: the draw enabled both flags.
C29_Witness ==
    /\ last.op = "draw"
    /\ ~panicked
    /\ meshes[last.recv].draw_mode = "Draw3D"
    /\ \E m \in 1..Len(meshes) : meshes[m].draw_mode = "Draw2D" /\ meshes[m].num_indices > 0
    /\ Len(FlagCalls(calls)) = 2
    /\ cache.draw_mode = Some("Draw3D")
    /\ gl.cull_face /\ gl.depth_test


\* ---------------------------------------------------------------- C27
\* The use_program calls of an operation's device calls
UseProgramCalls(log) == SelectSeq(log, LAMBDA c : c.name = "use_program")

\* The step is a draw or draw_instanced that is not a no-op
DrawStep ==
    /\ last'.op \in {"draw", "draw_instanced"}
    /\ meshes[last'.recv].num_indices # 0
    /\ last'.op = "draw_instanced" => last'.arg[2] # 0

\* C27: the program bind of a draw issues use_program iff the cached
\* bound_program differs from the program's id and leaves bound_program at
\* that id; no other operation issues use_program or changes bound_program;
\* so bound_program always names the program the device uses, and a draw
\* that follows a draw with the same program issues no use_program call.
C27_ProgramBindElision ==
    [][/\ DrawStep =>
             LET program == programs[meshes[last'.recv].program] IN
             /\ UseProgramCalls(calls') =
                    IF cache.bound_program # Some(program.id)
                    THEN <<Call("use_program", "", <<program.program>>)>>
                    ELSE <<>>
             /\ cache'.bound_program = Some(program.id)
             /\ (last.op \in {"draw", "draw_instanced"} /\ ~NoOpDraw
                     /\ meshes[last.recv].program = meshes[last'.recv].program)
                    => UseProgramCalls(calls') = <<>>
       /\ ~DrawStep =>
             /\ UseProgramCalls(calls') = <<>>
             /\ cache'.bound_program = cache.bound_program
       /\ IF cache'.bound_program = None THEN gl'.current_program = 0
          ELSE \E p \in 1..Len(programs') :
                   /\ cache'.bound_program = Some(programs'[p].id)
                   /\ gl'.current_program = programs'[p].program]_vars

\* A mesh of the second program was drawn: its bind reached the device, and
\* the cache and the device both name the second program.
C27_Witness ==
    /\ last.op = "draw"
    /\ ~panicked
    /\ Len(programs) = 2
    /\ meshes[last.recv].program = 2
    /\ \E m \in 1..Len(meshes) : meshes[m].program = 1 /\ meshes[m].num_indices > 0
    /\ UseProgramCalls(calls) = <<Call("use_program", "", <<programs[2].program>>)>>
    /\ cache.bound_program = Some(programs[2].id)
    /\ gl.current_program = programs[2].program


\* ---------------------------------------------------------------- C28
\* C28: Texture2d::bind(u) with u < 32 selects unit u and binds the texture
\* on the device iff bound_textures[u] differs from (TEXTURE_2D, the
\* texture's id); afterwards that entry holds the pair and every other
\* entry and cache field is as before; with u >= 32 it fails before any
\* device call.
C28_TextureBindElisionPerUnit ==
    [][last'.op = "Texture2d::bind" =>
          LET t == last'.recv
              u == last'.arg
              entry == Some(<<"TEXTURE_2D", textures[t].id>>)
          IN  IF u \in TextureUnits
              THEN /\ ~panicked'
                   /\ calls' = IF cache.bound_textures[u] # entry
                               THEN <<Call("active_texture", "", <<u>>),
                                      Call("bind_texture", "TEXTURE_2D",
                                           <<textures[t].texture>>)>>
                               ELSE <<>>
                   /\ cache' = [cache EXCEPT !.bound_textures[u] = entry]
              ELSE /\ panicked'
                   /\ calls' = <<>>
                   /\ cache' = cache
                   /\ gl' = gl]_vars

\* A texture was bound on unit 1 while unit 0 holds another texture: the
\* bind reached the device and unit 0's entry stayed.
C28_Witness ==
    /\ last.op = "Texture2d::bind"
    /\ last.arg = 1
    /\ ~panicked
    /\ Len(calls) = 2
    /\ cache.bound_textures[1] = Some(<<"TEXTURE_2D", textures[last.recv].id>>)
    /\ \E t \in 1..Len(textures) :
          /\ t # last.recv
          /\ cache.bound_textures[0] = Some(<<"TEXTURE_2D", textures[t].id>>)


\* ---------------------------------------------------------------- C25
\* The elements of a sequence
Range(q) == {q[i] : i \in 1..Len(q)}

\* No two textures, no two programs and no two of the screen and the
\* framebuffers, dropped ones included, have the same id
IdsDistinct(texs, fbs, progs) ==
    /\ \A i, j \in 1..Len(texs) : i # j => texs[i].id # texs[j].id
    /\ \A i, j \in 1..Len(progs) : i # j => progs[i].id # progs[j].id
    /\ \A i, j \in 1..Len(fbs) : i # j => fbs[i].id # fbs[j].id
    /\ \A i \in 1..Len(fbs) : fbs[i].id # screen.id

\* C25: over creates, binds and drops of textures, framebuffers and
\* programs on a host that reuses the handles of deleted objects, no two
\* resources (alive or dropped) ever have equal ids, and a bind of a
\* resource made while the cache slot is empty or names another resource
\* (a dropped one with the same handle included), such as the first bind
\* of a new resource, reaches the device.
C25_IdsUniqueAndFirstBindReachesDevice ==
    [][/\ IdsDistinct(textures', framebuffers', programs')
       /\ last'.op = "Texture2d::bind" =>
             LET t == last'.recv
                 slot == cache.bound_textures[last'.arg]
             IN  (\/ slot = None
                  \/ \E d \in 1..Len(textures) :
                         d # t /\ slot = Some(<<"TEXTURE_2D", textures[d].id>>))
                 => Call("bind_texture", "TEXTURE_2D", <<textures[t].texture>>)
                        \in Range(calls')
       /\ last'.op = "bind" =>
             LET s == last'.recv
                 slot == cache.bound_framebuffer
             IN  (\/ slot = None
                  \/ \E d \in Surfaces : d # s /\ slot = Some(SurfaceId(d)))
                 => Call("bind_framebuffer", "DRAW_FRAMEBUFFER", <<SurfaceHandle(s)>>)
                        \in Range(calls')
       /\ DrawStep =>
             LET p == meshes[last'.recv].program
                 slot == cache.bound_program
             IN  (\/ slot = None
                  \/ \E d \in 1..Len(programs) : d # p /\ slot = Some(programs[d].id))
                 => Call("use_program", "", <<programs[p].program>>) \in Range(calls')]_vars

\* A texture that got the handle of a dropped texture was bound, and the
\* bind reached the device.
C25_Witness ==
    /\ last.op = "Texture2d::bind"
    /\ ~panicked
    /\ last.recv \in LiveTextures
    /\ \E d \in 1..Len(textures) :
          /\ d \notin LiveTextures
          /\ textures[d].texture = textures[last.recv].texture
          /\ textures[d].id # textures[last.recv].id
    /\ calls = <<Call("active_texture", "", <<last.arg>>),
                 Call("bind_texture", "TEXTURE_2D", <<textures[last.recv].texture>>)>>
    /\ cache.bound_textures[last.arg] = Some(<<"TEXTURE_2D", textures[last.recv].id>>)


\* ---------------------------------------------------------------- C31
\* The locations of the calls of one name, in the order they were issued
LocationsOf(name) ==
    [i \in 1..Len(CallsNamed(name)) |-> CallsNamed(name)[i].args[1]]

\* C31: with instanced = true every slot setup_vertex_attribs emits (the
\* four slots of a 16-component attribute included) is followed at once by
\* vertex_attrib_divisor(loc, 1) on its location; with instanced = false no
\* vertex_attrib_divisor call is issued.
C31_InstancedMarksEverySlot ==
    last.op = "setup_vertex_attribs" =>
        IF last.arg
        THEN /\ LocationsOf("vertex_attrib_divisor") = LocationsOf("vertex_attrib_pointer")
             /\ \A i \in 1..Len(calls) :
                    /\ calls[i].name = "vertex_attrib_divisor" => calls[i].args[2] = 1
                    /\ calls[i].name = "vertex_attrib_pointer" =>
                          /\ i < Len(calls)
                          /\ calls[i + 1] = Call("vertex_attrib_divisor", "",
                                                 <<calls[i].args[1], 1>>)
        ELSE CallsNamed("vertex_attrib_divisor") = <<>>

\* The instanced layout of (2, 16): five slots, each with its divisor call
C31_Witness ==
    /\ last.op = "setup_vertex_attribs"
    /\ last.recv = <<2, 16>>
    /\ last.arg
    /\ ~panicked
    /\ LocationsOf("vertex_attrib_divisor") = <<0, 1, 2, 3, 4>>
    /\ LocationsOf("vertex_attrib_pointer") = <<0, 1, 2, 3, 4>>


\* ---------------------------------------------------------------- C32
\* The clear and draw calls of the last operation
TargetedCalls ==
    SelectSeq(calls, LAMBDA c : c.name \in {"clear", "draw_elements",
                                            "draw_elements_instanced"})

\* The surface the last clear or draw was given
TargetSurface == IF last.op = "clear" THEN last.recv
                 ELSE IF last.op = "draw" THEN last.arg ELSE last.arg[1]

\* C32: whenever Surface::clear or Mesh::draw issues its device clear or
\* draw call, the framebuffer the device draws into at that moment is the
\* surface the call was given.
C32_ClearAndDrawHitTheirSurface ==
    last.op \in {"clear", "draw", "draw_instanced"} =>
        \A i \in 1..Len(TargetedCalls) :
            TargetedCalls[i].on = Some(SurfaceHandle(TargetSurface))


\* ---------------------------------------------------------------- C33
\* C33: Texture2d::set_contents on a texture uploads into that texture: at
\* the upload the texture bound to TEXTURE_2D on the device's selected unit,
\* the one the device writes, is the texture set_contents was called on.
C33_SetContentsWritesItsTexture ==
    (last.op = "Texture2d::set_contents" /\ ~panicked) =>
        /\ Len(CallsNamed("tex_sub_image_2d")) = 1
        /\ CallsNamed("tex_sub_image_2d")[1].on = Some(textures[last.recv].texture)
        /\ gl.texture_binding[gl.active_texture] = textures[last.recv].texture


\* ---------------------------------------------------------------- C34
\* C34: after every MeshBuilder operation, each index in the builder's
\* index list is smaller than next_index: it names a vertex that was
\* appended to that builder.
C34_IndicesNameAppendedVertices ==
    (mesh_builder # None /\ ~panicked) =>
        \A i \in 1..Len(mesh_builder[1].indices) :
            mesh_builder[1].indices[i] < mesh_builder[1].next_index

====
